---- MODULE Spec2Model ----
(***************************************************************************)
(* Model of the MCP connection registry (MCPClientManager) of mcp-client.  *)
(* Every async method is split at its await points: the part that runs     *)
(* synchronously when the method is called is one action, and each         *)
(* continuation that runs when the awaited promise settles is another.     *)
(***************************************************************************)
EXTENDS Integers, Sequences, FiniteSets, TLC

\* ---------------------------------------------------------------- bounds
MaxOps == 3          \* number of registry method calls in one behaviour
MaxClock == 2        \* Date.now() returns a value in 1..MaxClock
MaxLen == 3          \* number of content blocks in a tool result
MaxCalls == 2        \* number of tool invocations the model asks for in one turn
MaxImport == 2       \* number of servers in an imported configuration
MaxMigrations == 2   \* number of calls of migrateLocalStorageToSupabase

\* ---------------------------------------------------------------- inputs
ServerIds == {"A", "B"}
Absent == "undefined"                 \* an optional field that is not set
GoodUrl == "http://host/mcp"
BadUrl == "not a url"
KnownTransports == {"stdio", "streamable-http", "sse"}

\* Configurations handed to connect: each transport kind with its own
\* parameter present and absent, a malformed URL, and an unknown kind.
Configs ==
    { [id |-> s, transport |-> "stdio", command |-> c, url |-> Absent] :
          s \in ServerIds, c \in {Absent, "node"} }
    \cup
    { [id |-> s, transport |-> "streamable-http", command |-> Absent, url |-> u] :
          s \in ServerIds, u \in {Absent, GoodUrl} }
    \cup
    { [id |-> s, transport |-> "sse", command |-> Absent, url |-> u] :
          s \in ServerIds, u \in {Absent, BadUrl} }
    \cup
    { [id |-> s, transport |-> "websocket", command |-> Absent, url |-> GoodUrl] :
          s \in ServerIds }

PipeConfigs == {config \in Configs : config.transport = "stdio"}

\* Values a failed handshake can throw: an Error with a message, or a
\* value that is not an Error.
HandshakeErrors ==
    { [isError |-> TRUE, message |-> <<"Connection closed">>],
      [isError |-> FALSE, message |-> <<>>] }

CapKinds == {"listTools", "listPrompts", "listResources",
             "callTool", "getPrompt", "readResource"}

\* Content blocks of a tool result; a text is a sequence of characters.
TextBlock(t) == [type |-> "text", text |-> t]
ImageBlock(d, mt) == [type |-> "image", data |-> d, mimeType |-> mt]
OtherBlock == [type |-> "resource"]

\* What a server answers to each protocol call.
WireResults(kind) ==
    CASE kind = "listTools" ->
            { [tools |-> << [name |-> "echo", description |-> "Echo", inputSchema |-> "schema",
                             annotations |-> "x"],
                            [name |-> "shot", description |-> Absent, inputSchema |-> Absent,
                             annotations |-> Absent] >>] }
      [] kind = "listPrompts" ->
            { [prompts |-> << [name |-> "greet", description |-> Absent,
                               arguments |-> <<"who">>, title |-> "Greet"] >>] }
      [] kind = "listResources" ->
            { [resources |-> << [uri |-> "file:///a", name |-> "a", description |-> Absent,
                                 mimeType |-> "text/plain", size |-> "10"] >>] }
      [] kind = "callTool" ->
            { [isError |-> FALSE],
              [content |-> << TextBlock(<<"a">>), ImageBlock("AAAA", Absent), OtherBlock,
                              TextBlock(<<"b">>), ImageBlock("BBBB", "image/jpeg") >>] }
      [] kind = "getPrompt" -> { [messages |-> <<"hello">>] }
      [] kind = "readResource" -> { [contents |-> <<"bytes">>] }

\* The content blocks a tool result is made of: texts (the empty string too),
\* images with a mime type and with an empty one, and a block of another kind.
Blocks ==
    { TextBlock(<<>>), TextBlock(<<"a">>), TextBlock(<<"b">>),
      ImageBlock("AAAA", ""), ImageBlock("BBBB", "image/jpeg"), OtherBlock }

\* The answers to tools/call: every list of at most MaxLen blocks, and an
\* answer without content.
ToolResults ==
    { [isError |-> FALSE] }
    \cup { [content |-> c] : c \in UNION { [1..n -> Blocks] : n \in 0..MaxLen } }

\* What a rejected protocol call throws.
CallErrors == { [isError |-> TRUE, message |-> <<"Request timed out">>] }

\* ---------------------------------------------------------------- inputs of a turn
\* A string the orchestrator takes apart or puts together is a sequence of
\* characters. The characters of the server ids: A is the id a, B the id a__b.
Spell(serverId) ==
    CASE serverId = "A" -> <<"a">>
      [] serverId = "B" -> <<"a", "_", "_", "b">>
      [] OTHER -> <<serverId>>

\* The tool lists a server answers tools/list with, by tool name
ToolLists ==
    { << [name |-> <<"c">>] >>,
      << [name |-> <<"b", "_", "_", "c">>] >> }

\* A name the model asks for that no server offers
UnknownName == <<"n", "o">>

\* What Math.random().toString(36).substr(2, 9) gives, as a number: the n-th
\* invocation of a turn gets a value that no other invocation gets (a random
\* string is taken to be fresh).
FreshRandom == [n \in 1..MaxCalls |-> {n}]

\* What a rejected callTool throws within a turn: an Error, or a value that
\* is no Error
TurnCallErrors == CallErrors \cup { [isError |-> FALSE, message |-> <<>>] }

\* The answers to tools/call within a turn
TurnToolResults ==
    { [isError |-> FALSE],
      [content |-> << TextBlock(<<"a">>) >>],
      [content |-> << ImageBlock("AAAA", "") >>],
      [content |-> << TextBlock(<<"a">>), ImageBlock("BBBB", "image/jpeg") >>] }

\* Answers to tools/call with two images, with and without text
ManyImages ==
    { [content |-> << ImageBlock("AAAA", "image/png"), ImageBlock("BBBB", "image/jpeg") >>],
      [content |-> << ImageBlock("AAAA", "image/png"), TextBlock(<<"a">>),
                      ImageBlock("BBBB", "image/jpeg") >>] }

\* The sessionId and the messageId of a chat request: missing (or empty), or
\* an id
RequestIds == {Absent, "id"}

\* What a request in flight is rejected with when its client is closed
ConnectionClosedError ==
    [isError |-> TRUE, message |-> <<"MCP error -32000: Connection closed">>]

\* What a failed chat.sendMessage throws
ModelErrors ==
    { [isError |-> TRUE, message |-> <<"quota exceeded">>],
      [isError |-> FALSE, message |-> <<>>] }

\* The texts of a plain-text reply of the model
ReplyTexts == { <<>>, <<"h", "i">> }

\* The messages of a chat request: of the user, of the model, and null
UserMessage == [role |-> "user", content |-> <<"q">>]
ModelMessage == [role |-> "assistant", content |-> <<"r">>]
NullMessage == [null |-> TRUE]

\* The values of body.messages that are arrays: no message, one or two
MessageArrays ==
    LET M == {UserMessage, ModelMessage, NullMessage}
    IN {<<>>} \cup {<<a>> : a \in M} \cup {<<a, b>> : a \in M, b \in M}

\* A request whose body is no JSON object (null, or no JSON at all)
NullBody == [null |-> TRUE]

\* The bodies of a chat request: no object, an object without messages, one
\* whose messages are no array, and one whose messages are an array
Bodies ==
    {NullBody}
    \cup {[sessionId |-> "id", messageId |-> "id"]}
    \cup {[messages |-> [array |-> FALSE], sessionId |-> "id", messageId |-> "id"]}
    \cup {[messages |-> [array |-> TRUE, items |-> m], sessionId |-> "id", messageId |-> "id"] :
             m \in MessageArrays}

\* process.env.GEMINI_API_KEY: not set, empty, or a key
ApiKeys == {Absent, "", "key"}

VARIABLES
    clients,      \* the Map<string, ClientInstance>, in insertion order
    ops,          \* the method calls: not started, suspended at an await, done
    clientObjs,   \* the SDK Client objects created so far and their condition
    ev,           \* what the last step did (call, return value, thrown error)
    turn,         \* the chat request the orchestrator is serving
    localStorage, \* the browser's localStorage: server list, sessions, messages, flag
    supabase,     \* the rows of the tables chat_sessions and messages
    migration     \* the call of migrateLocalStorageToSupabase in progress

vars == <<clients, ops, clientObjs, ev, turn, localStorage, supabase, migration>>

OpIds == 1..MaxOps
Times == 1..MaxClock

\* ------------------------------------------------------------ Map helpers
None == [none |-> TRUE]

MapHas(m, k) == \E n \in 1..Len(m) : m[n].key = k

MapGet(m, k) ==
    IF MapHas(m, k)
    THEN (CHOOSE e \in {m[n] : n \in 1..Len(m)} : e.key = k).value
    ELSE None

\* Mutant: the entry is pushed without looking for the key.
MapSet_Push(m, k, v) == Append(m, [key |-> k, value |-> v])

\* Map.prototype.set: an existing key keeps its position, a new key is appended.
MapSet(m, k, v) ==
    IF MapHas(m, k)
    THEN [n \in 1..Len(m) |-> IF m[n].key = k THEN [key |-> k, value |-> v] ELSE m[n]]
    ELSE Append(m, [key |-> k, value |-> v])

MapDelete(m, k) == SelectSeq(m, LAMBDA e : e.key # k)

MapKeys(m) == [n \in 1..Len(m) |-> m[n].key]

\* ------------------------------------------------------------ pure parts
Falsy(x) == x \in {Absent, ""}

Error(msg) == [isError |-> TRUE, message |-> msg]

\* new URL(u): throws a TypeError on a malformed URL
URLParses(u) == u = GoodUrl

\* Mutant: the stdio case does not check that a command is given.
createTransport_NoCommandCheck(config) ==
    CASE config.transport = "stdio" ->
            [ok |-> TRUE, transport |-> [kind |-> "StdioClientTransport", target |-> config.command]]
      [] config.transport \in {"streamable-http", "sse"} ->
            IF Falsy(config.url)
            THEN [ok |-> FALSE, error |-> Error(<<"Transport requires a URL">>)]
            ELSE IF ~URLParses(config.url)
            THEN [ok |-> FALSE, error |-> Error(<<"Invalid URL">>)]
            ELSE [ok |-> TRUE, transport |-> [kind |-> "HTTP", target |-> config.url]]
      [] OTHER ->
            [ok |-> FALSE, error |-> Error(<<"Unsupported transport type: ", config.transport>>)]

createTransport(config) ==
    CASE config.transport = "stdio" ->
            IF Falsy(config.command)
            THEN [ok |-> FALSE, error |-> Error(<<"STDIO transport requires a command">>)]
            ELSE [ok |-> TRUE, transport |-> [kind |-> "StdioClientTransport", target |-> config.command]]
      [] config.transport = "streamable-http" ->
            IF Falsy(config.url)
            THEN [ok |-> FALSE, error |-> Error(<<"Streamable HTTP transport requires a URL">>)]
            ELSE IF ~URLParses(config.url)
            THEN [ok |-> FALSE, error |-> Error(<<"Invalid URL">>)]
            ELSE [ok |-> TRUE, transport |-> [kind |-> "StreamableHTTPClientTransport", target |-> config.url]]
      [] config.transport = "sse" ->
            IF Falsy(config.url)
            THEN [ok |-> FALSE, error |-> Error(<<"SSE transport requires a URL">>)]
            ELSE IF ~URLParses(config.url)
            THEN [ok |-> FALSE, error |-> Error(<<"Invalid URL">>)]
            ELSE [ok |-> TRUE, transport |-> [kind |-> "SSEClientTransport", target |-> config.url]]
      [] OTHER ->
            [ok |-> FALSE, error |-> Error(<<"Unsupported transport type: ", config.transport>>)]

\* error instanceof Error ? error.message : 'Connection failed'
ConnectErrorMessage(e) == IF e.isError THEN e.message ELSE <<"Connection failed">>

ConnectingState(config) == [serverId |-> config.id, status |-> "connecting"]

ConnectedState(config, t) ==
    [serverId |-> config.id, status |-> "connected", connectedAt |-> t]

ErrorState(config, e) ==
    [serverId |-> config.id, status |-> "error", error |-> ConnectErrorMessage(e)]

IsConnected(inst) == inst # None /\ inst.state.status = "connected"

\* Mutant: an absent instance is answered with null.
getConnectionState_Nullable(m, serverId) ==
    IF MapGet(m, serverId) = None THEN None ELSE MapGet(m, serverId).state

getConnectionState(m, serverId) ==
    IF MapGet(m, serverId) = None
    THEN [serverId |-> serverId, status |-> "disconnected"]
    ELSE MapGet(m, serverId).state

\* null is modelled by 0, a Client by the number of the call that created it
getClient(m, serverId) ==
    IF MapGet(m, serverId) = None \/ MapGet(m, serverId).state.status # "connected"
    THEN 0
    ELSE MapGet(m, serverId).client

getConnectedServerIds(m) ==
    MapKeys(SelectSeq(m, LAMBDA e : e.value.state.status = "connected"))

\* POST /api/mcp/connect after its validation: the response built from what
\* mcpClientManager.connect returned (state) or threw (err).
ConnectResponse(config, threw, state) ==
    IF threw
    THEN [http |-> "500", success |-> FALSE, serverId |-> "",
          error |-> IF state.isError THEN state.message ELSE <<"Internal server error">>]
    ELSE IF state.status = "connected"
    THEN [http |-> "200", success |-> TRUE, serverId |-> config.id]
    ELSE [http |-> "500", success |-> FALSE, serverId |-> config.id,
          error |-> IF "error" \notin DOMAIN state \/ state.error = <<>>
                    THEN <<"Connection failed">> ELSE state.error]

NotConnectedError(serverId) == Error(<<"Server ", serverId, " is not connected">>)

\* callTool, lines 360-376: the text blocks joined by a newline
RECURSIVE TextOf(_, _)
TextOf(content, textContent) ==
    IF content = <<>>
    THEN textContent
    ELSE TextOf(Tail(content),
                IF Head(content).type = "text"
                THEN textContent \o (IF textContent # <<>> THEN <<"\n">> ELSE <<>>)
                                 \o Head(content).text
                ELSE textContent)

\* Mutant: each image is put in front of the ones collected before it.
RECURSIVE ImagesOf_Unshift(_)
ImagesOf_Unshift(content) ==
    IF content = <<>>
    THEN <<>>
    ELSE ImagesOf_Unshift(Tail(content)) \o
         (IF Head(content).type = "image"
          THEN << [data |-> Head(content).data,
                   mimeType |-> IF Falsy(Head(content).mimeType) THEN "image/png"
                                ELSE Head(content).mimeType] >>
          ELSE <<>>)

\* callTool, lines 361-376: the image blocks, mimeType || 'image/png'
RECURSIVE ImagesOf(_)
ImagesOf(content) ==
    IF content = <<>>
    THEN <<>>
    ELSE (IF Head(content).type = "image"
          THEN << [data |-> Head(content).data,
                   mimeType |-> IF Falsy(Head(content).mimeType) THEN "image/png"
                                ELSE Head(content).mimeType] >>
          ELSE <<>>) \o ImagesOf(Tail(content))

\* result.content && Array.isArray(result.content)
ContentOf(result) == IF "content" \in DOMAIN result THEN result.content ELSE <<>>

\* What each capability method returns for the server's answer.
CapReturn(kind, result) ==
    CASE kind = "listTools" ->
            [n \in 1..Len(result.tools) |->
                [name |-> result.tools[n].name,
                 description |-> result.tools[n].description,
                 inputSchema |-> result.tools[n].inputSchema]]
      [] kind = "listPrompts" ->
            [n \in 1..Len(result.prompts) |->
                [name |-> result.prompts[n].name,
                 description |-> result.prompts[n].description,
                 arguments |-> result.prompts[n].arguments]]
      [] kind = "listResources" ->
            [n \in 1..Len(result.resources) |->
                [uri |-> result.resources[n].uri,
                 name |-> result.resources[n].name,
                 description |-> result.resources[n].description,
                 mimeType |-> result.resources[n].mimeType]]
      [] kind = "callTool" ->
            [content |-> TextOf(ContentOf(result), <<>>),
             images |-> ImagesOf(ContentOf(result)),
             raw |-> result]
      [] OTHER -> result

\* ------------------------------------------------------------ orchestrator, pure parts
Separator == <<"_", "_">>

\* `${serverId}__${tool.name}` (chat route, line 93)
PrefixedName(serverId, name) == Spell(serverId) \o Separator \o name

\* pat occurs in str at position n
OccursAt(str, pat, n) ==
    /\ n + Len(pat) - 1 <= Len(str)
    /\ \A m \in 1..Len(pat) : str[n + m - 1] = pat[m]

\* String.prototype.replace with a string pattern: the first occurrence of
\* pat in str is replaced by rep; str is returned when pat does not occur.
ReplaceFirst(str, pat, rep) ==
    IF \E n \in 1..Len(str) : OccursAt(str, pat, n)
    THEN LET n == CHOOSE n \in 1..Len(str) :
                      /\ OccursAt(str, pat, n)
                      /\ \A m \in 1..(n - 1) : ~OccursAt(str, pat, m)
         IN SubSeq(str, 1, n - 1) \o rep \o SubSeq(str, n + Len(pat), Len(str))
    ELSE str

\* prefixedName.replace(`${serverInfo.serverId}__`, '') (line 246)
ActualToolName(prefixedName, serverId) ==
    ReplaceFirst(prefixedName, Spell(serverId) \o Separator, <<>>)

\* Mutant: the id is made of the time alone.
CallId_TimeOnly(t, r) == <<"call", t>>

\* `call_${Date.now()}_${Math.random().toString(36).substr(2, 9)}` (line 219)
CallId(t, r) == <<"call", t, r>>

\* The frames sendSSE puts on the stream
StartFrame(id, serverId, serverName, name, arguments) ==
    [event |-> "tool_call_start", id |-> id, serverId |-> serverId,
     serverName |-> serverName, name |-> name, arguments |-> arguments]

ResultFrame(id, result, images) ==
    [event |-> "tool_call_result", id |-> id, result |-> result, images |-> images]

ResultErrorFrame(id, error) ==
    [event |-> "tool_call_result", id |-> id, error |-> error]

TextFrame(content) == [event |-> "text", content |-> content]

DoneFrame == [event |-> "done"]

ErrorFrame(message) == [event |-> "error", message |-> message]

\* error instanceof Error ? error.message : fallback
MessageOf(e, fallback) == IF e.isError THEN e.message ELSE fallback

\* ------------------------------------------------------------ state
Idle == [pc |-> "idle"]
Done == [pc |-> "done"]
NoClient == [st |-> "none", serverId |-> Absent]

\* No chat request has been received
NoTurn == [pc |-> "idle"]

\* A localStorage without any of the keys of the application: no server
\* list (mcp_servers), no sessions (chat_sessions), no messages of a session
\* (chat_messages_<id>), no legacy messages (chat_messages), no flag
\* (supabase_migration_done)
SessionIds == {"s1", "s2", "uuid"}
EmptyStorage ==
    [mcp_servers |-> <<>>, chat_sessions |-> None,
     messages |-> [id \in SessionIds |-> None],
     chat_messages |-> None, migration_done |-> FALSE]

\* Empty tables chat_sessions and messages
NoRows == [chat_sessions |-> {}, messages |-> <<>>]

\* No migration has been called
NoMigration == [pc |-> "idle", calls |-> 0]

\* What a step did: the call op of method kind with argument arg returned or
\* threw value (type "return") or reached an await (type "await"); sync tells
\* that the step is the call itself, cause what the step came from, thrown
\* the error the method caught or let through (None: nothing was thrown),
\* pre the registry and the Client objects before the step.
Event(type, i, kind, arg, sync, threw, value, cause) ==
    [type |-> type, op |-> i, kind |-> kind, arg |-> arg, sync |-> sync,
     threw |-> threw, value |-> value, cause |-> cause, thrown |-> None,
     pre |-> [clients |-> clients, clientObjs |-> clientObjs]]

Returned(i, kind, arg, sync, value, cause) ==
    Event("return", i, kind, arg, sync, FALSE, value, cause)

Threw(i, kind, arg, sync, err, cause) ==
    [Event("return", i, kind, arg, sync, TRUE, err, cause) EXCEPT !.thrown = err]

Suspended(i, kind, arg, sync, cause) ==
    Event("await", i, kind, arg, sync, FALSE, Absent, cause)

Init ==
    /\ clients = <<>>
    /\ ops = [i \in OpIds |-> Idle]
    /\ clientObjs = [i \in OpIds |-> NoClient]
    /\ ev = [type |-> "init", op |-> 0, kind |-> "none", arg |-> Absent,
             sync |-> FALSE, threw |-> FALSE, value |-> Absent, cause |-> Absent,
             thrown |-> None,
             pre |-> [clients |-> <<>>, clientObjs |-> [i \in OpIds |-> NoClient]]]
    /\ turn = NoTurn
    /\ localStorage = EmptyStorage
    /\ supabase = NoRows
    /\ migration = NoMigration

\* calls are numbered in the order they are made
NextOp(i) == ops[i] = Idle /\ \A j \in OpIds : j < i => ops[j] # Idle

\* ------------------------------------------------------------ connect
\* connect(config), lines 214-226 and 239-243, the part that runs before the
\* await of the handshake: the transport is built and the Client created, or
\* createTransport throws and the error state is returned. m is the registry
\* this part leaves.
ConnectBuild(i, config, m, sync) ==
    IF createTransport(config).ok
    THEN /\ clientObjs' = [clientObjs EXCEPT ![i] = [st |-> "handshaking", serverId |-> config.id]]
         /\ ops' = [ops EXCEPT ![i] =
                       [pc |-> "handshake", kind |-> "connect", config |-> config,
                        state |-> ConnectingState(config)]]
         /\ clients' = m
         /\ ev' = Suspended(i, "connect", config, sync, "handshake")
    ELSE /\ ops' = [ops EXCEPT ![i] = Done]
         /\ clients' = m
         /\ ev' = [Returned(i, "connect", config, sync,
                            ErrorState(config, createTransport(config).error),
                            "createTransport threw")
                      EXCEPT !.thrown = createTransport(config).error]
         /\ UNCHANGED clientObjs

\* Mutant: connect does not look for a connected instance and connects again.
ConnectReturnExisting_Reconnect(i, config) ==
    /\ ConnectBuild(i, config, clients, TRUE)
    /\ UNCHANGED <<turn, localStorage, supabase, migration>>

\* connect(config), lines 204-207: a connected instance exists, its state is
\* returned as it is.
ConnectReturnExisting(i, config) ==
    /\ ev' = Returned(i, "connect", config, TRUE, MapGet(clients, config.id).state,
                      "already connected")
    /\ ops' = [ops EXCEPT ![i] = Done]
    /\ UNCHANGED <<clients, clientObjs>>

\* this.disconnect(serverId), lines 250-254, up to the await of close()
DisconnectBegin(i, kind, arg, serverId) ==
    /\ clientObjs' = [clientObjs EXCEPT ![MapGet(clients, serverId).client].st =
                         IF @ = "open" THEN "closing" ELSE @]
    /\ ops' = [ops EXCEPT ![i] =
                  [pc |-> "closing", kind |-> kind, serverId |-> serverId,
                   arg |-> arg, client |-> MapGet(clients, serverId).client]]
    /\ ev' = Suspended(i, kind, arg, TRUE, "close")
    /\ UNCHANGED clients

\* A call of connect(config): lines 204-226 up to the first await.
ConnectCall(i, config) ==
    /\ NextOp(i)
    /\ IF IsConnected(MapGet(clients, config.id))
       THEN ConnectReturnExisting(i, config)
       ELSE IF MapGet(clients, config.id) # None
       THEN DisconnectBegin(i, "connect", config, config.id)
       ELSE ConnectBuild(i, config, clients, TRUE)
    /\ UNCHANGED <<turn, localStorage, supabase, migration>>

\* Mutant: the state is marked connected and returned, the instance is not stored.
HandshakeSucceeds_NoStore(i, t) ==
    /\ ops[i].pc = "handshake"
    /\ clientObjs' = [clientObjs EXCEPT ![i].st = "open"]
    /\ ev' = Returned(i, "connect", ops[i].config, FALSE,
                      ConnectedState(ops[i].config, t), "handshake resolved")
    /\ ops' = [ops EXCEPT ![i] = Done]
    /\ UNCHANGED clients
    /\ UNCHANGED <<turn, localStorage, supabase, migration>>

\* Mutant: one handshake at a time, a handshake is completed only when no other
\* connect is awaiting its own.
HandshakeSucceeds_Exclusive(i, t) ==
    /\ ops[i].pc = "handshake"
    /\ \A j \in OpIds \ {i} : ops[j].pc # "handshake"
    /\ clientObjs' = [clientObjs EXCEPT ![i].st = "open"]
    /\ clients' = MapSet(clients, ops[i].config.id,
                         [client |-> i, transport |-> createTransport(ops[i].config).transport,
                          config |-> ops[i].config,
                          state |-> ConnectedState(ops[i].config, t)])
    /\ ev' = Returned(i, "connect", ops[i].config, FALSE,
                      ConnectedState(ops[i].config, t), "handshake resolved")
    /\ ops' = [ops EXCEPT ![i] = Done]
    /\ UNCHANGED <<turn, localStorage, supabase, migration>>

\* client.connect(transport) resolves: lines 228-238. t is what Date.now()
\* returns (the wall clock, which can repeat a value or step back).
HandshakeSucceeds(i, t) ==
    /\ ops[i].pc = "handshake"
    /\ clientObjs' = [clientObjs EXCEPT ![i].st = "open"]
    /\ clients' = MapSet(clients, ops[i].config.id,
                         [client |-> i, transport |-> createTransport(ops[i].config).transport,
                          config |-> ops[i].config,
                          state |-> ConnectedState(ops[i].config, t)])
    /\ ev' = Returned(i, "connect", ops[i].config, FALSE,
                      ConnectedState(ops[i].config, t), "handshake resolved")
    /\ ops' = [ops EXCEPT ![i] = Done]
    /\ UNCHANGED <<turn, localStorage, supabase, migration>>

\* Mutant: the handshake is awaited outside the try block, its error escapes.
HandshakeFails_Rethrow(i, e) ==
    /\ ops[i].pc = "handshake"
    /\ clientObjs' = [clientObjs EXCEPT ![i].st = "failed"]
    /\ ev' = Threw(i, "connect", ops[i].config, FALSE, e, "handshake rejected")
    /\ ops' = [ops EXCEPT ![i] = Done]
    /\ UNCHANGED clients
    /\ UNCHANGED <<turn, localStorage, supabase, migration>>

\* Mutant: the error state is stored in the registry before it is returned.
HandshakeFails_StoreError(i, e) ==
    /\ ops[i].pc = "handshake"
    /\ clientObjs' = [clientObjs EXCEPT ![i].st = "failed"]
    /\ clients' = MapSet(clients, ops[i].config.id,
                         [client |-> i, transport |-> createTransport(ops[i].config).transport,
                          config |-> ops[i].config,
                          state |-> ErrorState(ops[i].config, e)])
    /\ ev' = [Returned(i, "connect", ops[i].config, FALSE, ErrorState(ops[i].config, e),
                       "handshake rejected")
               EXCEPT !.thrown = e]
    /\ ops' = [ops EXCEPT ![i] = Done]
    /\ UNCHANGED <<turn, localStorage, supabase, migration>>

\* client.connect(transport) rejects with e: lines 239-243.
HandshakeFails(i, e) ==
    /\ ops[i].pc = "handshake"
    /\ clientObjs' = [clientObjs EXCEPT ![i].st = "failed"]
    /\ ev' = [Returned(i, "connect", ops[i].config, FALSE, ErrorState(ops[i].config, e),
                       "handshake rejected")
               EXCEPT !.thrown = e]
    /\ ops' = [ops EXCEPT ![i] = Done]
    /\ UNCHANGED clients
    /\ UNCHANGED <<turn, localStorage, supabase, migration>>

\* ------------------------------------------------------------ disconnect
\* A call of disconnect(serverId): lines 250-254 up to the await.
DisconnectCall(i, serverId) ==
    /\ NextOp(i)
    /\ IF MapGet(clients, serverId) = None
       THEN /\ ops' = [ops EXCEPT ![i] = Done]
            /\ ev' = Returned(i, "disconnect", serverId, TRUE, Absent, "absent")
            /\ UNCHANGED <<clients, clientObjs>>
       ELSE DisconnectBegin(i, "disconnect", serverId, serverId)
    /\ UNCHANGED <<turn, localStorage, supabase, migration>>

\* Mutant: the entry is deleted after close() inside the try block, not in finally.
CloseSettles_DeleteInTry(i, closed) ==
    /\ ops[i].pc = "closing"
    /\ ops[i].kind = "disconnect"
    /\ clients' = IF closed THEN MapDelete(clients, ops[i].serverId) ELSE clients
    /\ clientObjs' = [clientObjs EXCEPT ![ops[i].client].st =
                         IF closed THEN "closed"
                         ELSE IF @ = "closing" THEN "closeFailed" ELSE @]
    /\ ops' = [ops EXCEPT ![i] = Done]
    /\ ev' = Returned(i, "disconnect", ops[i].serverId, FALSE, Absent,
                      IF closed THEN "close resolved" ELSE "close threw")
    /\ UNCHANGED <<turn, localStorage, supabase, migration>>

\* instance.client.close() settles (closed: it resolved; otherwise it threw and
\* the error is logged): lines 255-259. The entry is deleted in both cases.
\* When connect called disconnect for a stale instance, connect goes on with
\* lines 214-226.
CloseSettles(i, closed) ==
    /\ ops[i].pc = "closing"
    /\ IF ops[i].kind = "disconnect"
       THEN /\ clients' = MapDelete(clients, ops[i].serverId)
            /\ clientObjs' = [clientObjs EXCEPT ![ops[i].client].st =
                                 IF closed THEN "closed"
                                 ELSE IF @ = "closing" THEN "closeFailed" ELSE @]
            /\ ops' = [ops EXCEPT ![i] = Done]
            /\ ev' = Returned(i, "disconnect", ops[i].serverId, FALSE, Absent,
                              IF closed THEN "close resolved" ELSE "close threw")
       ELSE ConnectBuild(i, ops[i].arg, MapDelete(clients, ops[i].serverId), FALSE)
    /\ UNCHANGED <<turn, localStorage, supabase, migration>>

\* ------------------------------------------------------------ disconnectAll
\* The instances of the ids in serverIds, in that order
TargetsOf(m, serverIds) ==
    [n \in 1..Len(serverIds) |->
        [serverId |-> serverIds[n], client |-> MapGet(m, serverIds[n]).client]]

\* A call of disconnectAll(): the keys are copied, disconnect(id) is called for
\* each of them in order, which calls close() on its client (lines 250-254),
\* and the call awaits Promise.all of the disconnects. inflight (the connects
\* awaiting their handshake at the call) is kept for the statements only.
DisconnectAllCall(i) ==
    /\ NextOp(i)
    /\ LET targets == TargetsOf(clients, MapKeys(clients)) IN
       /\ clientObjs' = [c \in OpIds |->
                            IF /\ \E n \in 1..Len(targets) : targets[n].client = c
                               /\ clientObjs[c].st = "open"
                            THEN [clientObjs[c] EXCEPT !.st = "closing"]
                            ELSE clientObjs[c]]
       /\ ops' = [ops EXCEPT ![i] =
                     [pc |-> "closingAll", kind |-> "disconnectAll", targets |-> targets,
                      pending |-> {targets[n].serverId : n \in 1..Len(targets)},
                      inflight |-> {j \in OpIds : ops[j].pc = "handshake"}]]
       /\ ev' = Suspended(i, "disconnectAll",
                          [targets |-> targets,
                           inflight |-> {j \in OpIds : ops[j].pc = "handshake"}],
                          TRUE, "close")
    /\ UNCHANGED clients
    /\ UNCHANGED <<turn, localStorage, supabase, migration>>

\* The client of serverId in the targets of call i
TargetClient(i, serverId) ==
    (CHOOSE t \in {ops[i].targets[n] : n \in 1..Len(ops[i].targets)} :
        t.serverId = serverId).client

\* close() of one of the disconnects of disconnectAll settles: lines 255-259,
\* the disconnect(serverId) deletes the entry and returns.
DisconnectAllCloseSettles(i, serverId, closed) ==
    /\ ops[i].pc = "closingAll"
    /\ serverId \in ops[i].pending
    /\ clients' = MapDelete(clients, serverId)
    /\ clientObjs' = [clientObjs EXCEPT ![TargetClient(i, serverId)].st =
                         IF closed THEN "closed"
                         ELSE IF @ = "closing" THEN "closeFailed" ELSE @]
    /\ ops' = [ops EXCEPT ![i].pending = @ \ {serverId}]
    /\ ev' = Returned(i, "disconnect", serverId, FALSE, Absent,
                      IF closed THEN "close resolved" ELSE "close threw")
    /\ UNCHANGED <<turn, localStorage, supabase, migration>>

\* Mutant: Promise.race in place of Promise.all, the first disconnect that
\* returns ends the call.
DisconnectAllSettles_Race(i) ==
    /\ ops[i].pc = "closingAll"
    /\ ops[i].pending # {ops[i].targets[n].serverId : n \in 1..Len(ops[i].targets)}
    /\ ops' = [ops EXCEPT ![i] = Done]
    /\ ev' = Returned(i, "disconnectAll",
                      [targets |-> ops[i].targets, inflight |-> ops[i].inflight],
                      FALSE, Absent, "all settled")
    /\ UNCHANGED <<clients, clientObjs>>
    /\ UNCHANGED <<turn, localStorage, supabase, migration>>

\* Promise.all resolves when every disconnect has returned (none rejects):
\* disconnectAll returns, line 433.
DisconnectAllSettles(i) ==
    /\ ops[i].pc = "closingAll"
    /\ ops[i].pending = {}
    /\ ops' = [ops EXCEPT ![i] = Done]
    /\ ev' = Returned(i, "disconnectAll",
                      [targets |-> ops[i].targets, inflight |-> ops[i].inflight],
                      FALSE, Absent, "all settled")
    /\ UNCHANGED <<clients, clientObjs>>
    /\ UNCHANGED <<turn, localStorage, supabase, migration>>

\* ------------------------------------------------------------ capabilities
\* Mutant: the method does not test the client for null and uses it.
CapCall_NoNullCheck(j, kind, serverId) ==
    /\ NextOp(j)
    /\ IF getClient(clients, serverId) = 0
       THEN /\ ops' = [ops EXCEPT ![j] = Done]
            /\ ev' = Threw(j, kind, serverId, TRUE,
                           Error(<<"Cannot read properties of null">>), "no client")
       ELSE /\ ops' = [ops EXCEPT ![j] =
                            [pc |-> "calling", kind |-> kind, serverId |-> serverId,
                             client |-> getClient(clients, serverId)]]
            /\ ev' = Suspended(j, kind, serverId, TRUE, "request")
    /\ UNCHANGED <<clients, clientObjs>>
    /\ UNCHANGED <<turn, localStorage, supabase, migration>>

\* A call of listTools, listPrompts, listResources, callTool, getPrompt or
\* readResource: getClient, the not-connected error, or the protocol call
\* issued on the client and awaited.
CapCall(j, kind, serverId) ==
    /\ NextOp(j)
    /\ IF getClient(clients, serverId) = 0
       THEN /\ ops' = [ops EXCEPT ![j] = Done]
            /\ ev' = Threw(j, kind, serverId, TRUE, NotConnectedError(serverId), "no client")
       ELSE /\ ops' = [ops EXCEPT ![j] =
                            [pc |-> "calling", kind |-> kind, serverId |-> serverId,
                             client |-> getClient(clients, serverId)]]
            /\ ev' = Suspended(j, kind, serverId, TRUE, "request")
    /\ UNCHANGED <<clients, clientObjs>>
    /\ UNCHANGED <<turn, localStorage, supabase, migration>>

\* The protocol call resolves: the answer is mapped and returned.
CapSettles(j) ==
    /\ ops[j].pc = "calling"
    /\ ops' = [ops EXCEPT ![j] = Done]
    /\ \E result \in WireResults(ops[j].kind) :
          ev' = Returned(j, ops[j].kind, ops[j].serverId, FALSE,
                         CapReturn(ops[j].kind, result), "request resolved")
    /\ UNCHANGED <<clients, clientObjs>>
    /\ UNCHANGED <<turn, localStorage, supabase, migration>>

\* client.callTool resolves with result: lines 359-383, the answer is
\* normalized and returned. The event keeps the answer as it came.
CallToolSettles(j, result) ==
    /\ ops[j].pc = "calling"
    /\ ops[j].kind = "callTool"
    /\ ops' = [ops EXCEPT ![j] = Done]
    /\ ev' = [type |-> "return", op |-> j, kind |-> "callTool", arg |-> ops[j].serverId,
              sync |-> FALSE, threw |-> FALSE, value |-> CapReturn("callTool", result),
              cause |-> "request resolved", thrown |-> None, answer |-> result,
              pre |-> [clients |-> clients, clientObjs |-> clientObjs]]
    /\ UNCHANGED <<clients, clientObjs>>
    /\ UNCHANGED <<turn, localStorage, supabase, migration>>

\* The protocol call rejects: the error goes to the caller.
CapFails(j, e) ==
    /\ ops[j].pc = "calling"
    /\ ops' = [ops EXCEPT ![j] = Done]
    /\ ev' = Threw(j, ops[j].kind, ops[j].serverId, FALSE, e, "request rejected")
    /\ UNCHANGED <<clients, clientObjs>>
    /\ UNCHANGED <<turn, localStorage, supabase, migration>>

\* ------------------------------------------------------------ reads
\* Mutant: the read takes a lock that connect and disconnect hold while they
\* await, and cannot be served until they are through.
GetConnectionStateCall_Locked(i, serverId) ==
    /\ NextOp(i)
    /\ \A j \in OpIds : ops[j].pc \notin {"handshake", "closing"}
    /\ ops' = [ops EXCEPT ![i] = Done]
    /\ ev' = Returned(i, "getConnectionState", serverId, TRUE,
                      getConnectionState(clients, serverId), "read")
    /\ UNCHANGED <<clients, clientObjs>>
    /\ UNCHANGED <<turn, localStorage, supabase, migration>>

\* A call of getConnectionState(serverId), lines 265-271: a synchronous method,
\* it reads the map and returns.
GetConnectionStateCall(i, serverId) ==
    /\ NextOp(i)
    /\ ops' = [ops EXCEPT ![i] = Done]
    /\ ev' = Returned(i, "getConnectionState", serverId, TRUE,
                      getConnectionState(clients, serverId), "read")
    /\ UNCHANGED <<clients, clientObjs>>
    /\ UNCHANGED <<turn, localStorage, supabase, migration>>

\* A call of getConnectedServerIds(), lines 422-426: synchronous as well.
GetConnectedServerIdsCall(i) ==
    /\ NextOp(i)
    /\ ops' = [ops EXCEPT ![i] = Done]
    /\ ev' = Returned(i, "getConnectedServerIds", Absent, TRUE,
                      getConnectedServerIds(clients), "read")
    /\ UNCHANGED <<clients, clientObjs>>
    /\ UNCHANGED <<turn, localStorage, supabase, migration>>

\* ------------------------------------------------------------ orchestrator
\* pendingFunctionResults || '' (lines 192, 208, 340): the variable is the
\* empty string from its declaration on.
PendingFunctionResults == <<>>

\* chat.sendMessage({ message }) is called and awaited (lines 198-208)
SendMessage(t, message) ==
    [t EXCEPT !.pc = "model", !.round = @ + 1, !.sent = Append(@, message)]

\* The ReadableStream is created and start() runs up to its first await:
\* the first message goes to the model (lines 175-205).
OpenStream(t) == SendMessage(t, <<"user message">>)

\* new Response(JSON.stringify({ error }), { status }): lines 59-62, 67-70,
\* 142-145 and 372-380
JsonError(status, error) == [status |-> status, error |-> error]

\* new Response(readable, ...): lines 363-369
StreamResponse == [status |-> "200", stream |-> TRUE]

\* The request is answered with a JSON error and no stream
Reject(t, response) == [t EXCEPT !.pc = "rejected", !.response = response]

\* What reading a property of null throws, caught at line 370
NullTypeError == <<"Cannot read properties of null">>

\* Mutant: the role of the last message is not looked at.
Prepare_NoRoleCheck(t) ==
    LET items == t.request.messages.items
    IN IF \E n \in 1..Len(items) : items[n] = NullMessage
       THEN Reject(t, JsonError("500", NullTypeError))
       ELSE OpenStream([t EXCEPT !.response = StreamResponse])

\* Lines 109-172 and 363-369, after the tools are collected: the history is
\* built from the messages before the last (msg.content of a null message
\* throws), the role of the last message is checked (lastMessage.role of
\* null throws), then the stream is opened.
Prepare(t) ==
    LET items == t.request.messages.items
    IN IF \E n \in 1..Len(items) : items[n] = NullMessage
       THEN Reject(t, JsonError("500", NullTypeError))
       ELSE IF items[Len(items)].role # "user"
       THEN Reject(t, JsonError("400", <<"Last message must be from user">>))
       ELSE OpenStream([t EXCEPT !.response = StreamResponse])

\* Lines 86-104 from the server at position n on, with the registry m: a
\* listTools that throws at once (the server has no connected client) is
\* logged and the server skipped; otherwise tools/list is awaited.
RECURSIVE Collect(_, _, _)
Collect(t, n, m) ==
    IF n > Len(t.serverIds)
    THEN Prepare(t)
    ELSE IF getClient(m, t.serverIds[n]) = 0
    THEN Collect([t EXCEPT !.listings = Append(@, [serverId |-> t.serverIds[n],
                                                   failed |-> TRUE])],
                 n + 1, m)
    ELSE [t EXCEPT !.pc = "listing", !.n = n]

\* Lines 91-100: the tools of one server are offered under their prefixed names
RECURSIVE AddTools(_, _, _, _)
AddTools(t, serverId, state, tools) ==
    IF tools = <<>>
    THEN t
    ELSE LET prefixedName == PrefixedName(serverId, Head(tools).name) IN
         AddTools([t EXCEPT
                      !.allTools = Append(@, [serverId |-> serverId, serverName |-> serverId,
                                              tool |-> [name |-> prefixedName],
                                              listed |-> Head(tools).name]),
                      !.toolServerMap = MapSet(@, prefixedName,
                                               [serverId |-> serverId,
                                                serverName |-> state.serverId])],
                  serverId, state, Tail(tools))

\* The request of a turn as POST finds it (lines 55-56, 65 and 76): its body,
\* the API key of the environment and the ids connected now
NewTurn(body, apiKey, m) ==
    [pc |-> "idle", request |-> body, apiKey |-> apiKey, response |-> None,
     sessionId |-> IF "sessionId" \in DOMAIN body THEN body.sessionId ELSE Absent,
     messageId |-> IF "messageId" \in DOMAIN body THEN body.messageId ELSE Absent,
     serverIds |-> getConnectedServerIds(m), n |-> 0,
     toolServerMap |-> <<>>, allTools |-> <<>>, listings |-> <<>>,
     frames |-> <<>>, round |-> 0, sent |-> <<>>,
     functionCalls |-> <<>>, k |-> 0, functionResults |-> <<>>,
     conversationParts |-> <<>>,
     call |-> None, thrown |-> None, outcomes |-> <<>>,
     reply |-> None]

\* !messages || !Array.isArray(messages) || messages.length === 0 (line 58)
NoMessages(body) ==
    \/ "messages" \notin DOMAIN body
    \/ ~body.messages.array
    \/ body.messages.items = <<>>

\* A chat request arrives (lines 53-104 up to the first await): a body that
\* is no object makes the destructuring throw (line 56, caught at 370); the
\* messages and the API key are checked; the connected ids are read and the
\* tools of the first of them asked for.
ChatRequest(body, apiKey) ==
    /\ turn.pc = "idle"
    /\ \A j \in OpIds : ops[j].pc # "handshake"
    /\ turn' =
          LET t == NewTurn(body, apiKey, clients)
          IN IF body = NullBody
             THEN Reject(t, JsonError("500", NullTypeError))
             ELSE IF NoMessages(body)
             THEN Reject(t, JsonError("400", <<"Messages array is required">>))
             ELSE IF Falsy(apiKey)
             THEN Reject(t, JsonError("500", <<"GEMINI_API_KEY is not configured">>))
             ELSE Collect(t, 1, clients)
    /\ UNCHANGED <<clients, ops, clientObjs, ev, localStorage, supabase, migration>>

\* A chat request with one message of the user arrives while the API key is
\* configured
TurnStart(sessionId, messageId) ==
    ChatRequest([messages |-> [array |-> TRUE, items |-> <<UserMessage>>],
                 sessionId |-> sessionId, messageId |-> messageId], "key")

\* tools/list of the server at position n is answered with tools (lines 88-100)
ListSettles(tools) ==
    /\ turn.pc = "listing"
    /\ turn' = Collect(AddTools([turn EXCEPT
                                    !.listings = Append(@, [serverId |-> turn.serverIds[turn.n],
                                                            failed |-> FALSE,
                                                            tools |-> tools])],
                                turn.serverIds[turn.n],
                                getConnectionState(clients, turn.serverIds[turn.n]),
                                tools),
                       turn.n + 1, clients)
    /\ UNCHANGED <<clients, ops, clientObjs, ev, localStorage, supabase, migration>>

\* Mutant: the listing is awaited outside a try block; its failure is caught
\* at line 370 and ends the request.
ListFails_Fatal ==
    /\ turn.pc = "listing"
    /\ turn' = Reject(turn, JsonError("500", <<"Request timed out">>))
    /\ UNCHANGED <<clients, ops, clientObjs, ev, localStorage, supabase, migration>>

\* tools/list fails: the error is logged, the server offers no tool (101-103)
ListFails ==
    /\ turn.pc = "listing"
    /\ turn' = Collect([turn EXCEPT
                           !.listings = Append(@, [serverId |-> turn.serverIds[turn.n],
                                                   failed |-> TRUE])],
                       turn.n + 1, clients)
    /\ UNCHANGED <<clients, ops, clientObjs, ev, localStorage, supabase, migration>>

\* The for loop of lines 218-320 from invocation k on, with the registry m, up
\* to the next await: an invocation of an unknown name and one whose callTool
\* throws at once are answered with start and result frames and the loop goes
\* on; after the last invocation the next message goes to the model
\* (pendingFunctionResults || '', lines 208 and 340).
\* Mutant: a name no server offers is passed over without a result frame.
UnknownCall_Silent(t, callId, prefixedName, arguments) ==
    [t EXCEPT
        !.frames = Append(@, StartFrame(callId, "unknown", "Unknown", prefixedName, arguments)),
        !.functionResults =
            Append(@, [name |-> prefixedName,
                       response |-> [error |-> <<"Server not found for tool">>]]),
        !.outcomes = Append(@, [kind |-> "unknown"])]

\* Lines 223-243: the name is in no entry of toolServerMap. A start frame
\* and a result frame with the error are sent and the error is kept for the
\* model.
UnknownCall(t, callId, prefixedName, arguments) ==
    [t EXCEPT
        !.frames = @ \o << StartFrame(callId, "unknown", "Unknown", prefixedName, arguments),
                           ResultErrorFrame(callId, <<"Server not found for tool">>) >>,
        !.functionResults =
            Append(@, [name |-> prefixedName,
                       response |-> [error |-> <<"Server not found for tool">>]]),
        !.outcomes = Append(@, [kind |-> "unknown"])]

\* Mutant: callTool is called before the start frame is sent.
Dispatch_CallFirst(t, k, start, prefixedName, client) ==
    [t EXCEPT
        !.pc = "tool", !.k = k,
        !.call = [id |-> start.id, prefixedName |-> prefixedName,
                  serverId |-> start.serverId, name |-> start.name,
                  client |-> client,
                  result |-> None, uploaded |-> <<>>, stored |-> <<>>, i |-> 0,
                  uploadResult |-> None]]

\* Lines 249-263: the start frame is sent, then callTool(serverId,
\* actualToolName, args) is called on the client of the server and awaited.
Dispatch(t, k, start, prefixedName, client) ==
    [t EXCEPT
        !.pc = "tool", !.k = k,
        !.frames = Append(@, start),
        !.call = [id |-> start.id, prefixedName |-> prefixedName,
                  serverId |-> start.serverId, name |-> start.name,
                  client |-> client,
                  result |-> None, uploaded |-> <<>>, stored |-> <<>>, i |-> 0,
                  uploadResult |-> None]]

RECURSIVE ProcessCalls(_, _, _)
ProcessCalls(t, k, m) ==
    IF k > Len(t.functionCalls)
    THEN SendMessage([t EXCEPT !.k = k, !.call = None,
                               !.conversationParts =
                                   @ \o << [role |-> "model", parts |-> t.functionCalls],
                                           [role |-> "user", parts |-> t.functionResults] >>],
                     PendingFunctionResults)
    ELSE LET call == t.functionCalls[k]
             callId == CallId(call.now, call.rand)
             prefixedName == IF call.name = Absent THEN <<>> ELSE call.name
             serverInfo == MapGet(t.toolServerMap, prefixedName)
         IN
         IF serverInfo = None
         THEN ProcessCalls(UnknownCall(t, callId, prefixedName, call.args), k + 1, m)
         ELSE LET actualToolName == ActualToolName(prefixedName, serverInfo.serverId)
                  start == StartFrame(callId, serverInfo.serverId, serverInfo.serverName,
                                      actualToolName, call.args)
              IN
              IF getClient(m, serverInfo.serverId) = 0
              THEN ProcessCalls(
                       [t EXCEPT
                           !.frames = @ \o << start,
                                              ResultErrorFrame(callId,
                                                  NotConnectedError(serverInfo.serverId).message) >>,
                           !.functionResults =
                               Append(@, [name |-> prefixedName,
                                          response |-> [error |->
                                              NotConnectedError(serverInfo.serverId).message]]),
                           !.outcomes = Append(@, [kind |-> "threw", st |-> "absent",
                                                   e |-> NotConnectedError(serverInfo.serverId)])],
                       k + 1, m)
              ELSE Dispatch(t, k, start, prefixedName, getClient(m, serverInfo.serverId))

\* Mutant: the result frame of the invocation in hand is not sent.
FinishCall_NoFrame(t, frame, response, m) ==
    ProcessCalls([t EXCEPT
                     !.functionResults = Append(@, [name |-> t.call.prefixedName,
                                                    response |-> response])],
                 t.k + 1, m)

\* The result frame of the invocation in hand is sent and its result kept
\* for the model; the loop goes on with the next invocation.
FinishCall(t, frame, response, m) ==
    ProcessCalls([t EXCEPT
                     !.frames = Append(@, frame),
                     !.functionResults = Append(@, [name |-> t.call.prefixedName,
                                                    response |-> response])],
                 t.k + 1, m)

\* uploadedImages.map(img => img.url).join(', ')
RECURSIVE JoinUrls(_)
JoinUrls(uploaded) ==
    IF uploaded = <<>> THEN <<>>
    ELSE IF Len(uploaded) = 1 THEN <<uploaded[1].url>>
    ELSE <<uploaded[1].url, ", ">> \o JoinUrls(Tail(uploaded))

\* Lines 298-301: the text the model gets for a successful call
ResponseContent(result, uploaded) ==
    result.content \o
    (IF uploaded # <<>>
     THEN <<"\n", "\n", "[Images generated: ">> \o JoinUrls(uploaded) \o <<"]">>
     ELSE <<>>)

\* A response that is a string, where other responses are objects
StringValue(str) == [string |-> str]

\* Lines 290-306, after the uploads: responseContent || result.raw is kept
\* for the model.
FinishSuccess(t, result, uploaded, m) ==
    FinishCall([t EXCEPT !.outcomes = Append(@, [kind |-> "returned", result |-> result,
                                                 stored |-> t.call.stored])],
               ResultFrame(t.call.id, result.raw,
                           IF uploaded # <<>> THEN uploaded ELSE Absent),
               IF ResponseContent(result, uploaded) # <<>>
               THEN StringValue(ResponseContent(result, uploaded))
               ELSE result.raw,
               m)

\* The number of invocations the turn has sent a start frame for
Invoked(t) == Cardinality({n \in 1..Len(t.frames) : t.frames[n].event = "tool_call_start"})

\* The names the model can ask for: the declared ones and one more
RequestNames(t) ==
    {t.allTools[n].tool.name : n \in 1..Len(t.allTools)} \cup {UnknownName}

\* The invocation lists of a reply of the model; rands[n] are the values
\* Math.random can give for the n-th invocation of the turn.
CallLists(t, rands) ==
    UNION { { calls \in [1..n -> [name : RequestNames(t), args : {"args"}, now : {1},
                                  rand : UNION {rands[m] : m \in 1..MaxCalls}]] :
                  \A p \in 1..n : calls[p].rand \in rands[Invoked(t) + p] } :
            n \in 1..(MaxCalls - Invoked(t)) }

\* chat.sendMessage resolves with a list of invocations (lines 212-218);
\* Math.random gives values of rands.
ModelAsksTools(rands) ==
    /\ turn.pc = "model"
    /\ \E calls \in CallLists(turn, rands) :
          turn' = ProcessCalls([turn EXCEPT !.functionCalls = calls,
                                            !.functionResults = <<>>],
                               1, clients)
    /\ UNCHANGED <<clients, ops, clientObjs, ev, localStorage, supabase, migration>>

\* Mutant: the done frame is sent before the text frame.
ModelAnswers_DoneFirst(text) ==
    /\ turn.pc = "model"
    /\ turn' = [turn EXCEPT
                   !.pc = "done",
                   !.reply = text,
                   !.frames = @ \o <<DoneFrame>>
                                \o (IF text # <<>> THEN <<TextFrame(text)>> ELSE <<>>)]
    /\ UNCHANGED <<clients, ops, clientObjs, ev, localStorage, supabase, migration>>

\* Mutant: the text frame is sent whatever the text is.
ModelAnswers_AlwaysText(text) ==
    /\ turn.pc = "model"
    /\ turn' = [turn EXCEPT
                   !.pc = "done",
                   !.reply = text,
                   !.frames = @ \o <<TextFrame(text), DoneFrame>>]
    /\ UNCHANGED <<clients, ops, clientObjs, ev, localStorage, supabase, migration>>

\* chat.sendMessage resolves with plain text (lines 341-352): response.text
\* || '' is sent in a text frame unless it is empty, then done; reply keeps
\* the text.
ModelAnswers(text) ==
    /\ turn.pc = "model"
    /\ turn' = [turn EXCEPT
                   !.pc = "done",
                   !.reply = text,
                   !.frames = @ \o (IF text # <<>> THEN <<TextFrame(text)>> ELSE <<>>)
                                \o <<DoneFrame>>]
    /\ UNCHANGED <<clients, ops, clientObjs, ev, localStorage, supabase, migration>>

\* Mutant: the error frame carries the fallback message whatever was thrown.
ModelFails_Generic(e) ==
    /\ turn.pc = "model"
    /\ turn' = [turn EXCEPT
                   !.pc = "failed",
                   !.thrown = e,
                   !.frames = Append(@, ErrorFrame(<<"Internal server error">>))]
    /\ UNCHANGED <<clients, ops, clientObjs, ev, localStorage, supabase, migration>>

\* chat.sendMessage rejects with e (lines 353-359); thrown keeps e.
ModelFails(e) ==
    /\ turn.pc = "model"
    /\ turn' = [turn EXCEPT
                   !.pc = "failed",
                   !.thrown = e,
                   !.frames = Append(@, ErrorFrame(MessageOf(e, <<"Internal server error">>)))]
    /\ UNCHANGED <<clients, ops, clientObjs, ev, localStorage, supabase, migration>>

\* sessionId && messageId (line 268)
HasTarget(t) == t.sessionId # Absent /\ t.messageId # Absent

\* callTool resolves with the normalized answer (lines 259-306): its images
\* are uploaded when the request carries the ids, else the result is sent.
\* A client that was closed rejects the requests it had in flight, none of
\* them resolves any more.
ToolSettles(answer) ==
    /\ turn.pc = "tool"
    /\ clientObjs[turn.call.client].st # "closed"
    /\ LET result == CapReturn("callTool", answer) IN
       turn' = IF Len(result.images) > 0 /\ HasTarget(turn)
               THEN [turn EXCEPT !.pc = "upload", !.call.result = result, !.call.i = 1]
               ELSE FinishSuccess(turn, result, <<>>, clients)
    /\ UNCHANGED <<clients, ops, clientObjs, ev, localStorage, supabase, migration>>

\* Mutant: after a rejected callTool the loop waits for good.
ToolFails_Hang(e) ==
    /\ turn.pc = "tool"
    /\ turn' = [turn EXCEPT !.pc = "hung",
                            !.outcomes = Append(@, [kind |-> "threw", e |-> e])]
    /\ UNCHANGED <<clients, ops, clientObjs, ev, localStorage, supabase, migration>>

\* Mutant: the rejection of callTool is not caught in the loop.
ToolFails_Propagates(e) ==
    /\ turn.pc = "tool"
    /\ turn' = [turn EXCEPT
                   !.pc = "failed",
                   !.outcomes = Append(@, [kind |-> "threw", e |-> e]),
                   !.frames = Append(@, ErrorFrame(MessageOf(e, <<"Internal server error">>)))]
    /\ UNCHANGED <<clients, ops, clientObjs, ev, localStorage, supabase, migration>>

\* Mutant: a call on a server that was disconnected meanwhile ends the turn.
ToolFails_GoneIsFatal(e) ==
    /\ turn.pc = "tool"
    /\ turn' = IF clientObjs[turn.call.client].st = "closed"
               THEN [turn EXCEPT
                        !.pc = "failed", !.thrown = e,
                        !.outcomes = Append(@, [kind |-> "threw", e |-> e, st |-> "closed"]),
                        !.frames = Append(@, ErrorFrame(MessageOf(e, <<"Internal server error">>)))]
               ELSE FinishCall([turn EXCEPT
                                   !.outcomes = Append(@, [kind |-> "threw", e |-> e,
                                                           st |-> clientObjs[turn.call.client].st])],
                               ResultErrorFrame(turn.call.id,
                                                MessageOf(e, <<"Tool execution failed">>)),
                               [error |-> MessageOf(e, <<"Tool execution failed">>)],
                               clients)
    /\ UNCHANGED <<clients, ops, clientObjs, ev, localStorage, supabase, migration>>

\* callTool rejects with e (lines 307-319); the outcome keeps the condition
\* of the client at that time.
ToolFails(e) ==
    /\ turn.pc = "tool"
    /\ turn' = FinishCall([turn EXCEPT
                              !.outcomes = Append(@, [kind |-> "threw", e |-> e,
                                                      st |-> clientObjs[turn.call.client].st])],
                          ResultErrorFrame(turn.call.id, MessageOf(e, <<"Tool execution failed">>)),
                          [error |-> MessageOf(e, <<"Tool execution failed">>)],
                          clients)
    /\ UNCHANGED <<clients, ops, clientObjs, ev, localStorage, supabase, migration>>

\* The null a function returns
Null == [null |-> TRUE]

\* Lines 281-287 and on: uploadAndSaveImage of image i of the call in hand
\* returned value, a record with the public URL or null; the URL is kept,
\* the next image is uploaded or, after the last one, the result is sent.
UploadReturns(t, value, m) ==
    LET img == t.call.result.images[t.call.i]
        uploaded == t.call.uploaded \o
                    (IF value # Null
                     THEN << [url |-> value.publicUrl, mimeType |-> img.mimeType] >>
                     ELSE <<>>)
        next == [t EXCEPT !.call.uploaded = uploaded,
                          !.call.stored = Append(@, value # Null),
                          !.call.uploadResult = None]
    IN IF t.call.i < Len(t.call.result.images)
       THEN [next EXCEPT !.call.i = @ + 1]
       ELSE FinishSuccess(next, t.call.result, uploaded, m)

\* Mutant: an image that is not stored makes the call fail.
UploadSettles_Fatal(stored) ==
    /\ turn.pc = "upload"
    /\ LET img == turn.call.result.images[turn.call.i]
           uploaded == Append(turn.call.uploaded,
                              [url |-> <<"url", turn.call.i>>, mimeType |-> img.mimeType])
           result == turn.call.result
       IN
       turn' = IF ~stored
               THEN FinishCall([turn EXCEPT
                                   !.call.stored = Append(@, stored),
                                   !.outcomes = Append(@, [kind |-> "returned",
                                                           result |-> result,
                                                           stored |-> Append(turn.call.stored,
                                                                             stored)])],
                               ResultErrorFrame(turn.call.id, <<"Upload failed">>),
                               [error |-> <<"Upload failed">>], clients)
               ELSE IF turn.call.i < Len(turn.call.result.images)
               THEN [turn EXCEPT !.call.uploaded = uploaded,
                                 !.call.stored = Append(@, stored), !.call.i = @ + 1]
               ELSE FinishSuccess([turn EXCEPT !.call.uploaded = uploaded,
                                               !.call.stored = Append(@, stored)],
                                  turn.call.result, uploaded, clients)
    /\ UNCHANGED <<clients, ops, clientObjs, ev, localStorage, supabase, migration>>

\* uploadAndSaveImage of image i resolves, with a public URL (stored) or with
\* null (lines 271-287); after the last image the result is sent.
UploadSettles(stored) ==
    /\ turn.pc = "upload"
    /\ turn' = UploadReturns(turn,
                             IF stored THEN [publicUrl |-> <<"url", turn.call.i>>] ELSE Null,
                             clients)
    /\ UNCHANGED <<clients, ops, clientObjs, ev, localStorage, supabase, migration>>

\* What supabase.storage.upload does: it resolves without error, resolves
\* with an error, or rejects
UploadOutcomes ==
    { [kind |-> "ok"],
      [kind |-> "error", message |-> <<"Bucket not found">>],
      [kind |-> "throws", e |-> [isError |-> TRUE, message |-> <<"fetch failed">>]],
      [kind |-> "throws", e |-> [isError |-> FALSE, message |-> <<>>]] }

\* What the insert into message_images does: it resolves with the row,
\* resolves with an error, resolves with neither, or rejects
SaveOutcomes ==
    { [kind |-> "row"], [kind |-> "error"], [kind |-> "empty"], [kind |-> "throws"] }

\* options.filename of image i of the call in hand (line 276)
Filename(t) == <<"tool", t.call.name, t.call.i - 1>>

\* `${sessionId}/${messageId}/${filename}` (part_004, line 41)
StoragePath(sessionId, messageId, filename) == <<sessionId, "/", messageId, "/", filename>>

\* supabase.storage.from(BUCKET_NAME).getPublicUrl(storagePath).data.publicUrl
PublicUrl(storagePath) == <<"https://store/image_store/", storagePath>>

\* uploadImageToStorage (part_004, lines 25-79), given what the upload did
uploadImageToStorage(sessionId, messageId, filename, outcome) ==
    CASE outcome.kind = "ok" ->
            [success |-> TRUE,
             storagePath |-> StoragePath(sessionId, messageId, filename),
             publicUrl |-> PublicUrl(StoragePath(sessionId, messageId, filename))]
      [] outcome.kind = "error" ->
            [success |-> FALSE, error |-> outcome.message]
      [] outcome.kind = "throws" ->
            [success |-> FALSE, error |-> MessageOf(outcome.e, <<"Failed to upload image">>)]

\* saveImageMetadata (part_004, lines 84-124), given what the insert did: the
\* row as ImageMetadata, or null (data.id of an absent row throws inside the
\* try block)
saveImageMetadata(messageId, storagePath, mimeType, outcome) ==
    IF outcome.kind = "row"
    THEN [id |-> "row", messageId |-> messageId, storagePath |-> storagePath,
          mimeType |-> mimeType]
    ELSE Null

\* What the last step of uploadAndSaveImage reports: the image, what the
\* upload and the insert did, and the value returned
UploadEvent(t, upload, save, value) ==
    Returned(0, "uploadAndSaveImage",
             [call |-> Len(t.outcomes) + 1, i |-> t.call.i, upload |-> upload, save |-> save],
             FALSE, value, "upload")

\* Mutant: the URL of the upload is returned although the metadata were not
\* saved.
MetadataSettles_UrlAnyway(outcome) ==
    /\ turn.pc = "upload"
    /\ turn.call.uploadResult # None
    /\ LET value == [publicUrl |-> turn.call.uploadResult.publicUrl,
                     metadata |-> saveImageMetadata(turn.messageId,
                                                    turn.call.uploadResult.storagePath,
                                                    turn.call.result.images[turn.call.i].mimeType,
                                                    outcome)]
       IN /\ turn' = UploadReturns(turn, value, clients)
          /\ ev' = UploadEvent(turn, "ok", outcome.kind, value)
    /\ UNCHANGED <<clients, ops, clientObjs, localStorage, supabase, migration>>

\* uploadAndSaveImage (part_004, lines 217-232): saveImageMetadata settled;
\* null is returned without metadata, else the public URL and the metadata.
MetadataSettles(outcome) ==
    /\ turn.pc = "upload"
    /\ turn.call.uploadResult # None
    /\ LET metadata == saveImageMetadata(turn.messageId,
                                         turn.call.uploadResult.storagePath,
                                         turn.call.result.images[turn.call.i].mimeType,
                                         outcome)
           value == IF metadata = Null
                    THEN Null
                    ELSE [publicUrl |-> turn.call.uploadResult.publicUrl,
                          metadata |-> metadata]
       IN /\ turn' = UploadReturns(turn, value, clients)
          /\ ev' = UploadEvent(turn, "ok", outcome.kind, value)
    /\ UNCHANGED <<clients, ops, clientObjs, localStorage, supabase, migration>>

\* uploadAndSaveImage (part_004, lines 201-211): uploadImageToStorage
\* settled; null is returned when it did not succeed, else the metadata are
\* saved.
StorageSettles(outcome) ==
    /\ turn.pc = "upload"
    /\ turn.call.uploadResult = None
    /\ LET uploadResult == uploadImageToStorage(turn.sessionId, turn.messageId,
                                                Filename(turn), outcome)
       IN IF ~uploadResult.success \/ "storagePath" \notin DOMAIN uploadResult
          THEN /\ turn' = UploadReturns(turn, Null, clients)
               /\ ev' = UploadEvent(turn, outcome.kind, "none", Null)
          ELSE /\ turn' = [turn EXCEPT !.call.uploadResult = uploadResult]
               /\ ev' = Suspended(0, "uploadAndSaveImage", turn.call.i, FALSE,
                                  "saveImageMetadata")
    /\ UNCHANGED <<clients, ops, clientObjs, localStorage, supabase, migration>>


\* ------------------------------------------------------------ server list
\* The frame of the functions that work on localStorage alone
StorageFrame == UNCHANGED <<clients, ops, clientObjs, turn, supabase, migration>>

\* getServers(), lines 9-20: the list stored under mcp_servers, the empty
\* list when there is none
getServers(store) == store.mcp_servers

\* saveServers(servers), lines 25-33: the list is stored, or setItem throws
\* (the quota is exceeded), which is logged, and the stored list stays
saveServers(store, servers, saved) ==
    IF saved THEN [store EXCEPT !.mcp_servers = servers] ELSE store

HasServer(servers, id) == \E n \in 1..Len(servers) : servers[n].id = id

\* servers.findIndex((s) => s.id === id), 0 for -1
FindIndex(servers, id) ==
    IF HasServer(servers, id)
    THEN CHOOSE n \in 1..Len(servers) :
            /\ servers[n].id = id
            /\ \A m \in 1..(n - 1) : servers[m].id # id
    ELSE 0

\* A synchronous function of the configuration store returned value
StoreReturned(kind, arg, value) == Returned(0, kind, arg, TRUE, value, "store")

\* A synchronous function of the configuration store threw err
StoreThrew(kind, arg, err) == Threw(0, kind, arg, TRUE, err, "store")

\* addServer(server), lines 38-49
AddServer(server, saved) ==
    /\ LET servers == getServers(localStorage) IN
       IF HasServer(servers, server.id)
       THEN /\ ev' = StoreThrew("addServer", server,
                                Error(<<"Server with id ", server.id, " already exists">>))
            /\ UNCHANGED localStorage
       ELSE /\ localStorage' = saveServers(localStorage, Append(servers, server), saved)
            /\ ev' = StoreReturned("addServer", server, Append(servers, server))
    /\ StorageFrame

\* updateServer(server), lines 54-65
UpdateServer(server, saved) ==
    /\ LET servers == getServers(localStorage)
           index == FindIndex(servers, server.id)
       IN
       IF index = 0
       THEN /\ ev' = StoreThrew("updateServer", server,
                                Error(<<"Server with id ", server.id, " not found">>))
            /\ UNCHANGED localStorage
       ELSE /\ localStorage' = saveServers(localStorage, [servers EXCEPT ![index] = server],
                                           saved)
            /\ ev' = StoreReturned("updateServer", server, [servers EXCEPT ![index] = server])
    /\ StorageFrame

\* removeServer(serverId), lines 70-75
RemoveServer(serverId, saved) ==
    /\ LET updated == SelectSeq(getServers(localStorage), LAMBDA e : e.id # serverId) IN
       /\ localStorage' = saveServers(localStorage, updated, saved)
       /\ ev' = StoreReturned("removeServer", serverId, updated)
    /\ StorageFrame

\* importConfig(config, merge), lines 100-120
ImportConfig(config, merge, saved) ==
    /\ IF Falsy(config.version) \/ ~config.servers.array
       THEN /\ ev' = StoreThrew("importConfig", config, Error(<<"Invalid config format">>))
            /\ UNCHANGED localStorage
       ELSE LET importedServers == config.servers.items
                existingServers == getServers(localStorage)
                newServers == SelectSeq(importedServers,
                                        LAMBDA e : ~HasServer(existingServers, e.id))
                merged == existingServers \o newServers
            IN IF merge
               THEN /\ localStorage' = saveServers(localStorage, merged, saved)
                    /\ ev' = StoreReturned("importConfig", config, merged)
               ELSE /\ localStorage' = saveServers(localStorage, importedServers, saved)
                    /\ ev' = StoreReturned("importConfig", config, importedServers)
    /\ StorageFrame

\* ------------------------------------------------------------ migration
\* A value stored under a key is the text JSON.stringify wrote for an array,
\* or some other text; there is no value (None) under a key that is not set.
StoredArray(items) == [array |-> TRUE, items |-> items]
StoredOther == [array |-> FALSE]

\* JSON.parse(text) and Array.isArray(parsed), lines 46-53, 59-61 and
\* 104-106: the array, or the empty array for a text that is none
ParsedArray(stored) ==
    IF stored # None /\ stored.array THEN stored.items ELSE <<>>

\* The frame of the migration, which works on localStorage and Supabase
MigrationFrame == UNCHANGED <<clients, ops, clientObjs, ev, turn>>

\* The function returns (lines 34, 79, 139 and 141-146)
MigrationReturns(mig, migrated, error) ==
    [mig EXCEPT !.pc = "returned",
                !.result = [migrated |-> migrated, sessionsCount |-> mig.sessionsCount,
                            messagesCount |-> mig.messagesCount, error |-> error]]

\* Lines 131-139: the keys of the sessions and of their messages, the legacy
\* key included, are removed and the flag is set
CleanUp(store, sessions) ==
    [store EXCEPT !.chat_sessions = None,
                  !.chat_messages = None,
                  !.messages = [id \in SessionIds |->
                                   IF \E n \in 1..Len(sessions) : sessions[n] = id
                                   THEN None ELSE @[id]],
                  !.migration_done = TRUE]

\* The for loop of lines 83-129 from session k on, up to the next await: the
\* insert of session k is awaited, or after the last session the local data
\* are cleaned up and the function returns. The result has the migration
\* and the localStorage the step leaves.
MigrateFrom(mig, store, k) ==
    IF k > Len(mig.sessions)
    THEN [migration |-> MigrationReturns(mig, TRUE, Absent),
          localStorage |-> CleanUp(store, mig.sessions)]
    ELSE [migration |-> [mig EXCEPT !.pc = "session", !.k = k, !.inserts = @ + 1],
          localStorage |-> store]

\* Lines 101-128 for session k: its messages are loaded and, when there are
\* some, their insert is awaited; else the loop goes on.
MigrateMessages(mig, store) ==
    IF ParsedArray(store.messages[mig.sessions[mig.k]]) # <<>>
    THEN [migration |-> [mig EXCEPT !.pc = "messages", !.inserts = @ + 1],
          localStorage |-> store]
    ELSE MigrateFrom(mig, store, mig.k + 1)

\* A call of migrateLocalStorageToSupabase in the browser, lines 29-85 up to
\* the first await: nothing is done when the flag is set; the sessions are
\* loaded, or one session is made for legacy messages; without sessions the
\* flag is set.
MigrateCall ==
    /\ migration.pc \in {"idle", "returned"}
    /\ migration.calls < MaxMigrations
    /\ LET mig == [pc |-> "called", calls |-> migration.calls + 1,
                   flagged |-> localStorage.migration_done,
                   sessions |-> <<>>, k |-> 0, inserts |-> 0,
                   sessionsCount |-> 0, messagesCount |-> 0,
                   failedSessions |-> {}, failedBatches |-> {},
                   result |-> None]
           stored == ParsedArray(localStorage.chat_sessions)
           legacy == /\ localStorage.chat_messages # None
                     /\ stored = <<>>
                     /\ ParsedArray(localStorage.chat_messages) # <<>>
           sessions == IF legacy THEN <<"uuid">> ELSE stored
           store == IF legacy
                    THEN [localStorage EXCEPT !.messages["uuid"] = localStorage.chat_messages]
                    ELSE localStorage
       IN IF localStorage.migration_done
          THEN /\ migration' = MigrationReturns(mig, FALSE, Absent)
               /\ UNCHANGED localStorage
          ELSE IF sessions = <<>>
          THEN /\ migration' = MigrationReturns(mig, FALSE, Absent)
               /\ localStorage' = [store EXCEPT !.migration_done = TRUE]
          ELSE /\ migration' = MigrateFrom([mig EXCEPT !.sessions = sessions], store, 1).migration
               /\ localStorage' = store
    /\ UNCHANGED supabase
    /\ MigrationFrame

\* What the insert of a session does: it resolves without error, with a
\* duplicate-key error when the table has the id, or with another error, or
\* it rejects
SessionInsertOutcomes == {"ok", "duplicate", "error", "rejects"}

\* What the insert of the messages of a session does
MessagesInsertOutcomes == {"ok", "error", "rejects"}

\* The insert into chat_sessions settles (lines 85-99): a session that is
\* there already is passed, another error skips the session, a rejection is
\* caught at line 140.
SessionInsertSettles(outcome) ==
    /\ migration.pc = "session"
    /\ LET id == migration.sessions[migration.k] IN
       /\ outcome = "ok" => id \notin supabase.chat_sessions
       /\ outcome = "duplicate" => id \in supabase.chat_sessions
       /\ CASE outcome = "ok" ->
                 LET next == MigrateMessages([migration EXCEPT !.sessionsCount = @ + 1],
                                             localStorage)
                 IN /\ supabase' = [supabase EXCEPT !.chat_sessions = @ \cup {id}]
                    /\ migration' = next.migration
                    /\ localStorage' = next.localStorage
            [] outcome = "duplicate" ->
                 LET next == MigrateMessages(migration, localStorage)
                 IN /\ migration' = next.migration
                    /\ localStorage' = next.localStorage
                    /\ UNCHANGED supabase
            [] outcome = "error" ->
                 LET next == MigrateFrom([migration EXCEPT !.failedSessions = @ \cup {id}],
                                         localStorage, migration.k + 1)
                 IN /\ migration' = next.migration
                    /\ localStorage' = next.localStorage
                    /\ UNCHANGED supabase
            [] outcome = "rejects" ->
                 /\ migration' = MigrationReturns(migration, FALSE, <<"fetch failed">>)
                 /\ UNCHANGED <<localStorage, supabase>>
    /\ MigrationFrame

\* The insert into messages settles (lines 115-123): an error is logged and
\* the loop goes on, a rejection is caught at line 140.
MessagesInsertSettles(outcome) ==
    /\ migration.pc = "messages"
    /\ LET id == migration.sessions[migration.k]
           count == Len(ParsedArray(localStorage.messages[id]))
       IN
       CASE outcome = "ok" ->
               LET next == MigrateFrom([migration EXCEPT !.messagesCount = @ + count],
                                       localStorage, migration.k + 1)
               IN /\ supabase' = [supabase EXCEPT !.messages = Append(@, id)]
                  /\ migration' = next.migration
                  /\ localStorage' = next.localStorage
         [] outcome = "error" ->
               LET next == MigrateFrom([migration EXCEPT !.failedBatches = @ \cup {id}],
                                       localStorage, migration.k + 1)
               IN /\ migration' = next.migration
                  /\ localStorage' = next.localStorage
                  /\ UNCHANGED supabase
         [] outcome = "rejects" ->
               /\ migration' = MigrationReturns(migration, FALSE, <<"fetch failed">>)
               /\ UNCHANGED <<localStorage, supabase>>
    /\ MigrationFrame

\* The lifecycle of the registry: connect and disconnect calls.
Next ==
    \/ \E i \in OpIds, config \in Configs : ConnectCall(i, config)
    \/ \E i \in OpIds, t \in Times : HandshakeSucceeds(i, t)
    \/ \E i \in OpIds, e \in HandshakeErrors : HandshakeFails(i, e)
    \/ \E i \in OpIds, s \in ServerIds : DisconnectCall(i, s)
    \/ \E i \in OpIds, closed \in BOOLEAN : CloseSettles(i, closed)

Spec == Init /\ [][Next]_vars

\* The capability calls among connects and disconnects. The capability
\* methods read the id and the status of an instance and its client, never its
\* transport or its timestamp: the servers are pipe servers here, with and
\* without their command, and the clock stands still.
NextCalls ==
    \/ \E i \in OpIds, config \in PipeConfigs : ConnectCall(i, config)
    \/ \E i \in OpIds : HandshakeSucceeds(i, 1)
    \/ \E i \in OpIds, e \in HandshakeErrors : HandshakeFails(i, e)
    \/ \E i \in OpIds, s \in ServerIds : DisconnectCall(i, s)
    \/ \E i \in OpIds, closed \in BOOLEAN : CloseSettles(i, closed)
    \/ \E j \in OpIds, kind \in CapKinds, s \in ServerIds : CapCall(j, kind, s)
    \/ \E j \in OpIds : CapSettles(j)
    \/ \E j \in OpIds, e \in CallErrors : CapFails(j, e)

SpecCalls == Init /\ [][NextCalls]_vars

\* disconnectAll among connects and disconnects of pipe servers.
NextAll ==
    \/ \E i \in OpIds, config \in PipeConfigs : ConnectCall(i, config)
    \/ \E i \in OpIds : HandshakeSucceeds(i, 1)
    \/ \E i \in OpIds, e \in HandshakeErrors : HandshakeFails(i, e)
    \/ \E i \in OpIds, s \in ServerIds : DisconnectCall(i, s)
    \/ \E i \in OpIds, closed \in BOOLEAN : CloseSettles(i, closed)
    \/ \E i \in OpIds : DisconnectAllCall(i)
    \/ \E i \in OpIds, s \in ServerIds, closed \in BOOLEAN :
          DisconnectAllCloseSettles(i, s, closed)
    \/ \E i \in OpIds : DisconnectAllSettles(i)

SpecAll == Init /\ [][NextAll]_vars

\* The reads among connects and disconnects of pipe servers.
NextReads ==
    \/ \E i \in OpIds, config \in PipeConfigs : ConnectCall(i, config)
    \/ \E i \in OpIds : HandshakeSucceeds(i, 1)
    \/ \E i \in OpIds, e \in HandshakeErrors : HandshakeFails(i, e)
    \/ \E i \in OpIds, s \in ServerIds : DisconnectCall(i, s)
    \/ \E i \in OpIds, closed \in BOOLEAN : CloseSettles(i, closed)
    \/ \E i \in OpIds, s \in ServerIds : GetConnectionStateCall(i, s)
    \/ \E i \in OpIds : GetConnectedServerIdsCall(i)

SpecReads == Init /\ [][NextReads]_vars

\* Tool calls on connected pipe servers and their answers; the calls are made
\* one at a time, each after the answer to the one before (the normalization
\* of an answer reads nothing but the answer).
NextTool ==
    \/ \E i \in OpIds, config \in PipeConfigs :
          createTransport(config).ok /\ ConnectCall(i, config)
    \/ \E i \in OpIds : HandshakeSucceeds(i, 1)
    \/ \E j \in OpIds, s \in ServerIds :
          (\A k \in OpIds : ops[k].pc # "calling") /\ CapCall(j, "callTool", s)
    \/ \E j \in OpIds :
          ops[j].pc = "calling" /\ \E result \in ToolResults : CallToolSettles(j, result)

SpecTool == Init /\ [][NextTool]_vars

\* A server is connected that is neither connected nor being connected
ConnectNew(i, config) ==
    /\ turn.pc = "idle"
    /\ createTransport(config).ok
    /\ ~MapHas(clients, config.id)
    /\ \A j \in OpIds : ops[j].pc # "handshake"
    /\ ConnectCall(i, config)

\* A turn of the orchestrator on a registry that stands still meanwhile:
\* pipe servers are connected one after the other, then a chat request is
\* served. Math.random gives each invocation a value of its own.
NextTurn ==
    \/ \E i \in OpIds, config \in PipeConfigs : ConnectNew(i, config)
    \/ \E i \in OpIds : HandshakeSucceeds(i, 1)
    \/ \E id \in RequestIds : TurnStart(id, id)
    \/ \E tools \in ToolLists : ListSettles(tools)
    \/ ListFails
    \/ ModelAsksTools(FreshRandom)
    \/ \E text \in ReplyTexts : ModelAnswers(text)
    \/ \E e \in ModelErrors : ModelFails(e)
    \/ \E answer \in TurnToolResults : ToolSettles(answer)
    \/ \E e \in CallErrors : ToolFails(e)
    \/ \E stored \in BOOLEAN : UploadSettles(stored)

SpecTurn == Init /\ [][NextTurn]_vars

\* The awaits of an open stream settle: every chat.sendMessage resolves or
\* rejects, every callTool resolves or rejects, every uploadAndSaveImage
\* resolves. The model asks for MaxCalls invocations at most, then it answers
\* in plain text or fails.
ModelSettles ==
    \/ ModelAsksTools(FreshRandom)
    \/ \E text \in ReplyTexts : ModelAnswers(text)
    \/ \E e \in ModelErrors : ModelFails(e)

CallSettles ==
    \/ \E answer \in TurnToolResults \cup ManyImages : ToolSettles(answer)
    \/ \E e \in TurnCallErrors : ToolFails(e)

\* A turn on a registry with one server at most, connected by the first call
NextOneServer ==
    \/ \E config \in PipeConfigs : config.id = "A" /\ ConnectNew(1, config)
    \/ HandshakeSucceeds(1, 1)
    \/ \E sessionId \in RequestIds, messageId \in RequestIds :
          TurnStart(sessionId, messageId)
    \/ \E tools \in ToolLists : ListSettles(tools)
    \/ ListFails
    \/ ModelSettles
    \/ CallSettles
    \/ \E stored \in BOOLEAN : UploadSettles(stored)

SpecOneServer == Init /\ [][NextOneServer]_vars

\* The stream of the turn is open: the tools are collected (line 175)
StreamOpen == turn.pc \notin {"idle", "listing", "rejected"}

\* The turn is over: the stream was closed (lines 352 and 358)
TurnOver == turn.pc \in {"done", "failed"}

\* A request that disconnects a server comes in while a turn has its stream
\* open (the disconnect route calls disconnect(serverId)); the server is
\* registered and not being disconnected already.
DisconnectMeanwhile(i, serverId) ==
    /\ StreamOpen
    /\ ~TurnOver
    /\ MapHas(clients, serverId)
    /\ \A j \in OpIds : ops[j].pc # "closing"
    /\ DisconnectCall(i, serverId)

\* The call in hand is rejected for a reason of its own while its client is
\* not closed, or because its client is being closed or was closed.
CallRejects ==
    \/ /\ turn.pc = "tool"
       /\ clientObjs[turn.call.client].st # "closed"
       /\ \E e \in CallErrors : ToolFails(e)
    \/ /\ turn.pc = "tool"
       /\ clientObjs[turn.call.client].st \in {"closing", "closed", "closeFailed"}
       /\ ToolFails(ConnectionClosedError)

\* The answer of a tool that returns a text
TextAnswer == [content |-> << TextBlock(<<"a">>) >>]

\* A turn without uploads while another request disconnects server A, of
\* which the turn collected the tools; each server offers the tool c, which
\* returns a text.
NextDisconnect ==
    \/ \E i \in OpIds, config \in PipeConfigs : ConnectNew(i, config)
    \/ \E i \in OpIds : HandshakeSucceeds(i, 1)
    \/ TurnStart(Absent, Absent)
    \/ ListSettles(<< [name |-> <<"c">>] >>)
    \/ ModelSettles
    \/ ToolSettles(TextAnswer)
    \/ CallRejects
    \/ \E i \in OpIds : DisconnectMeanwhile(i, "A")
    \/ \E i \in OpIds, closed \in BOOLEAN : CloseSettles(i, closed)

SpecDisconnect == Init /\ [][NextDisconnect]_vars

\* Chat requests of every shape, with and without the API key, on a registry
\* with one server at most, which offers the tool c
NextRequest ==
    \/ \E config \in PipeConfigs : config.id = "A" /\ ConnectNew(1, config)
    \/ HandshakeSucceeds(1, 1)
    \/ \E body \in Bodies, apiKey \in ApiKeys : ChatRequest(body, apiKey)
    \/ ListSettles(<< [name |-> <<"c">>] >>)
    \/ ListFails
    \/ ModelSettles
    \/ ToolSettles(TextAnswer)
    \/ \E e \in CallErrors : ToolFails(e)

SpecRequest == Init /\ [][NextRequest]_vars

\* A request that disconnects a server comes in while the tools are being
\* collected
DisconnectWhileListing(i, serverId) ==
    /\ turn.pc = "listing"
    /\ MapHas(clients, serverId)
    /\ \A j \in OpIds : ops[j].pc # "closing"
    /\ DisconnectCall(i, serverId)

\* The tools of two servers are collected for a chat request, while one of
\* the servers may be disconnected; the model answers in plain text or fails.
NextCollect ==
    \/ \E i \in OpIds, config \in PipeConfigs : ConnectNew(i, config)
    \/ \E i \in OpIds : HandshakeSucceeds(i, 1)
    \/ TurnStart("id", "id")
    \/ \E tools \in ToolLists : ListSettles(tools)
    \/ ListFails
    \/ \E text \in ReplyTexts : ModelAnswers(text)
    \/ \E e \in ModelErrors : ModelFails(e)
    \/ \E i \in OpIds, s \in ServerIds : DisconnectWhileListing(i, s)
    \/ \E i \in OpIds, closed \in BOOLEAN : CloseSettles(i, closed)

SpecCollect == Init /\ [][NextCollect]_vars

\* The answers of a tool with one image and with two
ImageAnswers ==
    { [content |-> << TextBlock(<<"a">>), ImageBlock("BBBB", "image/jpeg") >>],
      [content |-> << ImageBlock("AAAA", "image/png"), ImageBlock("BBBB", "image/jpeg") >>] }

\* A turn whose tool answers with images, which are uploaded and recorded
\* one after the other
NextUpload ==
    \/ \E config \in PipeConfigs : config.id = "A" /\ ConnectNew(1, config)
    \/ HandshakeSucceeds(1, 1)
    \/ TurnStart("id", "id")
    \/ ListSettles(<< [name |-> <<"c">>] >>)
    \/ ModelSettles
    \/ \E answer \in ImageAnswers : ToolSettles(answer)
    \/ \E outcome \in UploadOutcomes : StorageSettles(outcome)
    \/ \E outcome \in SaveOutcomes : MetadataSettles(outcome)

SpecUpload == Init /\ [][NextUpload]_vars

\* The server configurations the user enters or imports: an id and a name
ServerEntries == [id : ServerIds, name : {"one", "two"}]

\* The server lists of an imported configuration, whose servers have the
\* name two
ImportLists ==
    UNION { [1..n -> {e \in ServerEntries : e.name = "two"}] : n \in 0..MaxImport }

\* The configurations handed to importConfig: with and without version,
\* with a server list and with something else in its place
ImportedConfigs ==
    { [version |-> v, servers |-> [array |-> TRUE, items |-> l]] :
         v \in {"1.0", Absent}, l \in ImportLists }
    \cup { [version |-> "1.0", servers |-> [array |-> FALSE]] }

\* The configuration collaborator: any sequence of its four functions
NextStore ==
    \/ \E server \in ServerEntries, saved \in BOOLEAN : AddServer(server, saved)
    \/ \E server \in ServerEntries, saved \in BOOLEAN : UpdateServer(server, saved)
    \/ \E id \in ServerIds, saved \in BOOLEAN : RemoveServer(id, saved)
    \/ \E config \in ImportedConfigs, merge \in BOOLEAN, saved \in BOOLEAN :
          ImportConfig(config, merge, saved)

SpecStore == Init /\ [][NextStore]_vars

\* What an earlier version of the application left in localStorage: no
\* session, one or two; for each session no messages, a batch of messages or
\* a text that is no array; legacy messages or none
LocalData ==
    { [EmptyStorage EXCEPT
          !.chat_sessions = sessions,
          !.messages = [id \in SessionIds |->
                           IF id = "s1" THEN first ELSE IF id = "s2" THEN second ELSE None],
          !.chat_messages = legacy] :
        sessions \in {None, StoredOther, StoredArray(<<>>), StoredArray(<<"s1">>),
                      StoredArray(<<"s1", "s2">>)},
        first \in {None, StoredOther, StoredArray(<<"m1", "m2">>)},
        second \in {None, StoredArray(<<"m3">>)},
        legacy \in {None, StoredArray(<<"m0">>)} }

\* The browser opens the application with local data; the tables may hold
\* the first session already
InitMigrate ==
    /\ clients = <<>>
    /\ ops = [i \in OpIds |-> Idle]
    /\ clientObjs = [i \in OpIds |-> NoClient]
    /\ ev = [type |-> "init", op |-> 0, kind |-> "none", arg |-> Absent,
             sync |-> FALSE, threw |-> FALSE, value |-> Absent, cause |-> Absent,
             thrown |-> None,
             pre |-> [clients |-> <<>>, clientObjs |-> [i \in OpIds |-> NoClient]]]
    /\ turn = NoTurn
    /\ localStorage \in LocalData
    /\ supabase \in {NoRows, [NoRows EXCEPT !.chat_sessions = {"s1"}]}
    /\ migration = NoMigration

NextMigrate ==
    \/ MigrateCall
    \/ \E outcome \in SessionInsertOutcomes : SessionInsertSettles(outcome)
    \/ \E outcome \in MessagesInsertOutcomes : MessagesInsertSettles(outcome)

SpecMigrate == InitMigrate /\ [][NextMigrate]_vars

\* A turn of a request that has a session and a message to store images for,
\* on a registry with one server at most, which offers the tool c
NextTurnFair ==
    \/ \E config \in PipeConfigs : config.id = "A" /\ ConnectNew(1, config)
    \/ HandshakeSucceeds(1, 1)
    \/ TurnStart("id", "id")
    \/ ListSettles(<< [name |-> <<"c">>] >>)
    \/ ListFails
    \/ ModelSettles
    \/ CallSettles
    \/ \E stored \in BOOLEAN : UploadSettles(stored)

\* The promises the turn awaits settle: the model's answer, the tool's answer
\* and the upload's outcome arrive or fail.
SpecTurnFair ==
    /\ Init /\ [][NextTurnFair]_vars
    /\ WF_vars(ModelSettles)
    /\ WF_vars(CallSettles)
    /\ WF_vars(\E stored \in BOOLEAN : UploadSettles(stored))
\* ------------------------------------------------------------ claims
InSeq(x, q) == \E n \in 1..Len(q) : q[n] = x

\* The server id a suspended connect or disconnect works on
OpServer(i) == IF ops[i].pc = "handshake" THEN ops[i].config.id ELSE ops[i].serverId

Mutating(i) == ops[i].pc \in {"handshake", "closing"}

\* A Client whose handshake succeeded and whose close() has not settled
Live(c) == clientObjs[c].st \in {"open", "closing"}

\* C1: connect and disconnect operations on the same server id never overlap;
\* two connects of one id are never both awaiting a handshake.
C1_PerIdSerialized ==
    \A i, j \in OpIds :
        (i # j /\ Mutating(i) /\ Mutating(j)) => OpServer(i) # OpServer(j)

\* C2: for every server id there is at most one live client.
C2_AtMostOneLiveClient ==
    \A s \in ServerIds :
        Cardinality({c \in OpIds : clientObjs[c].serverId = s /\ Live(c)}) <= 1

\* C3: connect called while a connected instance for config.id exists returns
\* that instance's state (same status and connectedAt), creates no transport
\* and no client, runs no handshake and leaves the registry as it was.
C3_ConnectIdempotent ==
    (ev.kind = "connect" /\ ev.sync /\ IsConnected(MapGet(ev.pre.clients, ev.arg.id))) =>
        /\ ev.type = "return"
        /\ ~ev.threw
        /\ ev.value = MapGet(ev.pre.clients, ev.arg.id).state
        /\ clients = ev.pre.clients
        /\ clientObjs = ev.pre.clientObjs
        /\ ops[ev.op] = Done

\* C3's case: a connect with another configuration than the stored one was
\* answered from a connected instance that is older than another server's.
C3_Witness ==
    /\ ev.kind = "connect" /\ ev.sync /\ ev.type = "return"
    /\ IsConnected(MapGet(ev.pre.clients, ev.arg.id))
    /\ MapGet(clients, ev.arg.id).config # ev.arg
    /\ \E s \in ServerIds :
          /\ IsConnected(MapGet(clients, s))
          /\ ev.value.connectedAt < MapGet(clients, s).state.connectedAt

\* C4: connect never raises: it returns a state for config.id, and when
\* anything was thrown inside, the state has status error and the message;
\* the connect route answers for config.id from that state.
C4_ConnectNeverRaises ==
    (ev.type = "return" /\ ev.kind = "connect") =>
        /\ ~ev.threw
        /\ ev.value.serverId = ev.arg.id
        /\ ev.value.status \in {"connected", "error"}
        /\ ev.thrown # None =>
              /\ ev.value.status = "error"
              /\ ev.value.error = (IF ev.thrown.isError THEN ev.thrown.message
                                   ELSE <<"Connection failed">>)
              /\ ~ConnectResponse(ev.arg, ev.threw, ev.value).success
        /\ ConnectResponse(ev.arg, ev.threw, ev.value).serverId = ev.arg.id

\* C4's case: a handshake threw a value that is not an Error and connect
\* returned the error state.
C4_Witness ==
    /\ ev.type = "return" /\ ev.kind = "connect"
    /\ ev.cause = "handshake rejected"
    /\ ~ev.thrown.isError
    /\ ev.value.status = "error"

\* C5: when the handshake succeeds connect returns status connected with
\* connectedAt set and the registry reports the id as connected; an id the
\* registry reports as connected stays so until a disconnect of that id.
C5_ConnectedUntilDisconnect ==
    /\ (ev.type = "return" /\ ev.kind = "connect" /\ ev.cause = "handshake resolved") =>
          /\ ~ev.threw
          /\ ev.value.status = "connected"
          /\ "connectedAt" \in DOMAIN ev.value
          /\ ev.value.connectedAt \in Times
          /\ getConnectionState(clients, ev.arg.id).status = "connected"
          /\ InSeq(ev.arg.id, getConnectedServerIds(clients))
    /\ \A s \in ServerIds :
          (/\ getConnectionState(ev.pre.clients, s).status = "connected"
           /\ ~(/\ getConnectionState(clients, s).status = "connected"
                /\ InSeq(s, getConnectedServerIds(clients))))
          => (ev.type = "return" /\ ev.kind = "disconnect" /\ ev.arg = s)

\* C5's case: a handshake succeeded while a disconnect of another id and a
\* second connect of the same id were going on.
C5_Witness ==
    /\ ev.type = "return" /\ ev.kind = "connect" /\ ev.cause = "handshake resolved"
    /\ \E i \in OpIds : ops[i].pc = "handshake" /\ ops[i].config.id = ev.arg.id
UnknownTransport(config) == config.transport \notin KnownTransports

MissingCommand(config) == config.transport = "stdio" /\ config.command \in {Absent, ""}

MissingUrl(config) ==
    config.transport \in {"streamable-http", "sse"} /\ config.url \in {Absent, ""}

\* What the returned state says for an unknown transport or a missing parameter
ReportsBadConfig(state, config) ==
    /\ state.status = "error"
    /\ UnknownTransport(config) =>
          state.error = <<"Unsupported transport type: ", config.transport>>
    /\ MissingCommand(config) => state.error = <<"STDIO transport requires a command">>
    /\ MissingUrl(config) =>
          state.error \in {<<"Streamable HTTP transport requires a URL">>,
                           <<"SSE transport requires a URL">>}

BadConfigCall ==
    /\ ev.kind = "connect" /\ ev.sync
    /\ UnknownTransport(ev.arg) \/ MissingCommand(ev.arg) \/ MissingUrl(ev.arg)

\* C6 as stated: every connect with an unknown transport or a missing
\* parameter fails with that error, attempts no handshake, creates no entry.
C6_BadConfigAlwaysFails ==
    BadConfigCall =>
        /\ ev.type = "return"
        /\ ReportsBadConfig(ev.value, ev.arg)

\* C6 amended: a connect with an unknown transport or a missing parameter,
\* called while no connected instance for config.id exists, returns the
\* error of that kind; no client is created, no handshake attempted and the
\* registry holds no entry for config.id.
C6_BadConfigFails ==
    (BadConfigCall /\ ~IsConnected(MapGet(ev.pre.clients, ev.arg.id))) =>
        /\ ev.type = "return"
        /\ ~ev.threw
        /\ ReportsBadConfig(ev.value, ev.arg)
        /\ ops[ev.op] = Done
        /\ clientObjs = ev.pre.clientObjs
        /\ clients = ev.pre.clients
        /\ ~MapHas(clients, ev.arg.id)

\* C6's case: a connect without its command failed while the other server
\* was connected.
C6_Witness ==
    /\ BadConfigCall /\ MissingCommand(ev.arg)
    /\ ~IsConnected(MapGet(ev.pre.clients, ev.arg.id))
    /\ ev.value.status = "error"
    /\ clients # <<>>

\* C7: disconnect of an id with no instance changes nothing; a disconnect of
\* an id with an instance closes the client, and when it returns, close
\* resolved or threw, the id has no entry; disconnect never raises.
C7_DisconnectRemoves ==
    /\ (ev.kind = "disconnect" /\ ev.sync /\ ~MapHas(ev.pre.clients, ev.arg)) =>
          /\ ev.type = "return"
          /\ clients = ev.pre.clients
          /\ clientObjs = ev.pre.clientObjs
    /\ (ev.kind = "disconnect" /\ ev.sync /\ MapHas(ev.pre.clients, ev.arg)) =>
          /\ ev.type = "await"
          /\ ops[ev.op].pc = "closing"
          /\ ops[ev.op].client = MapGet(ev.pre.clients, ev.arg).client
    /\ (ev.kind = "disconnect" /\ ev.type = "return") =>
          /\ ~ev.threw
          /\ ~MapHas(clients, ev.arg)

\* C7's case: close() threw and the disconnect removed the entry.
C7_Witness ==
    /\ ev.kind = "disconnect" /\ ev.type = "return"
    /\ ev.cause = "close threw"
    /\ MapHas(ev.pre.clients, ev.arg)
    /\ ~MapHas(clients, ev.arg)

QueryIds == ServerIds \cup {"never-connected"}

\* C8: when a disconnect(s) returns, getConnectionState(s) is
\* {serverId: s, status: disconnected}; it is that record, never null, for
\* every id that has no entry.
C8_DisconnectedAfterDisconnect ==
    /\ (ev.kind = "disconnect" /\ ev.type = "return") =>
          getConnectionState(clients, ev.arg) = [serverId |-> ev.arg, status |-> "disconnected"]
    /\ \A s \in QueryIds :
          ~MapHas(clients, s) =>
              getConnectionState(clients, s) = [serverId |-> s, status |-> "disconnected"]

\* C8's case: a disconnect of a connected id returned while the other id
\* stayed connected.
C8_Witness ==
    /\ ev.kind = "disconnect" /\ ev.type = "return"
    /\ IsConnected(MapGet(ev.pre.clients, ev.arg))
    /\ getConnectionState(clients, ev.arg).status = "disconnected"
    /\ clients # <<>>

\* C9: a capability method called for an id with no connected instance throws
\* the not-connected error at once: no protocol call is issued and the
\* registry and the clients are left as they were.
C9_NotConnected ==
    (ev.kind \in CapKinds /\ ev.sync /\ ~IsConnected(MapGet(ev.pre.clients, ev.arg))) =>
        /\ ev.type = "return"
        /\ ev.threw
        /\ ev.value = [isError |-> TRUE, message |-> <<"Server ", ev.arg, " is not connected">>]
        /\ ops[ev.op] = Done
        /\ clients = ev.pre.clients
        /\ clientObjs = ev.pre.clientObjs

\* C9's case: callTool was called for a server that had been connected and
\* was disconnected before the call.
C9_Witness ==
    /\ ev.kind = "callTool" /\ ev.sync /\ ev.threw
    /\ ~MapHas(clients, ev.arg)
    /\ \E c \in OpIds : clientObjs[c].serverId = ev.arg /\ clientObjs[c].st = "closed"

\* C10: getConnectedServerIds() lists exactly the ids whose connection state
\* is connected, each once.
C10_ConnectedIdsExact ==
    LET ids == getConnectedServerIds(clients) IN
    /\ {ids[n] : n \in 1..Len(ids)} =
          {s \in QueryIds : getConnectionState(clients, s).status = "connected"}
    /\ \A m, n \in 1..Len(ids) : m # n => ids[m] # ids[n]

\* C10's case: two connects of one id both succeeded, the other id is
\* connected too.
C10_Witness ==
    /\ Len(getConnectedServerIds(clients)) = 2
    /\ \E s \in ServerIds :
          Cardinality({c \in OpIds : clientObjs[c].serverId = s /\ clientObjs[c].st = "open"}) = 2

\* A connect called after call i that got to create its Client
ConnectStartedAfter(i) == \E j \in OpIds : j > i /\ clientObjs[j].st # "none"

\* What C11 says of a disconnectAll that has returned
AllDisconnected ==
    /\ \A n \in 1..Len(ev.arg.targets) :
          clientObjs[ev.arg.targets[n].client].st \in {"closing", "closed", "closeFailed"}
    /\ clients = <<>>
    /\ getConnectedServerIds(clients) = <<>>

\* C11 as stated: when disconnectAll returns and no connect was started after
\* its call, every client registered at the call has been asked to close, the
\* registry holds no entry and getConnectedServerIds() is empty.
C11_DisconnectAllEmpties ==
    (ev.kind = "disconnectAll" /\ ev.type = "return" /\ ~ConnectStartedAfter(ev.op)) =>
        AllDisconnected

\* C11 amended: when disconnectAll returns, no connect was awaiting its
\* handshake at the call and none was started after it, every client
\* registered at the call has been asked to close (its close resolved or
\* threw), the registry holds no entry and getConnectedServerIds() is empty.
C11_DisconnectAllQuiescent ==
    (/\ ev.kind = "disconnectAll" /\ ev.type = "return"
     /\ ev.arg.inflight = {}
     /\ ~ConnectStartedAfter(ev.op)) =>
        /\ AllDisconnected
        /\ \A n \in 1..Len(ev.arg.targets) :
              clientObjs[ev.arg.targets[n].client].st \in {"closed", "closeFailed"}
        /\ ~ev.threw

\* C11's case: disconnectAll returned after two servers were registered at its
\* call, and the close of one of them threw.
C11_Witness ==
    /\ ev.kind = "disconnectAll" /\ ev.type = "return"
    /\ ev.arg.inflight = {}
    /\ Len(ev.arg.targets) = 2
    /\ \E c \in OpIds : clientObjs[c].st = "closeFailed"
    /\ \E c \in OpIds : clientObjs[c].st = "closed"

\* Two connect calls of distinct ids, both awaiting their handshake
BothInFlight(i, j) ==
    /\ i # j
    /\ ops[i].pc = "handshake" /\ ops[j].pc = "handshake"
    /\ ops[i].config.id # ops[j].config.id

\* C12: with connects of two distinct ids in flight, each of them can complete,
\* successfully or not, while the other awaits its handshake; what a connect
\* returns and the entry it leaves for its id are decided by its own
\* configuration and handshake, and it leaves the entries and the clients of
\* the other ids as they were.
C12_DistinctIdsIndependent ==
    /\ \A i, j \in OpIds :
          BothInFlight(i, j) =>
              /\ \A t \in Times : ENABLED HandshakeSucceeds(i, t)
              /\ \A e \in HandshakeErrors : ENABLED HandshakeFails(i, e)
    /\ (ev.kind = "connect" /\ ev.cause \in {"handshake resolved", "handshake rejected"}) =>
          /\ \A s \in ServerIds \ {ev.arg.id} :
                MapGet(clients, s) = MapGet(ev.pre.clients, s)
          /\ \A c \in OpIds \ {ev.op} : clientObjs[c] = ev.pre.clientObjs[c]
          /\ IF ev.cause = "handshake resolved"
             THEN /\ \E t \in Times : ev.value = ConnectedState(ev.arg, t)
                  /\ MapGet(clients, ev.arg.id) =
                        [client |-> ev.op, transport |-> createTransport(ev.arg).transport,
                         config |-> ev.arg, state |-> ev.value]
             ELSE /\ ev.value = ErrorState(ev.arg, ev.thrown)
                  /\ MapGet(clients, ev.arg.id) = MapGet(ev.pre.clients, ev.arg.id)

\* C12's case: the connect of one id has failed while the connect of another
\* id, called before it, is still awaiting its handshake.
C12_Witness ==
    /\ ev.kind = "connect" /\ ev.cause = "handshake rejected"
    /\ \E j \in OpIds :
          /\ j < ev.op
          /\ ops[j].pc = "handshake"
          /\ ops[j].config.id # ev.arg.id

ReadKinds == {"getConnectionState", "getConnectedServerIds"}

\* C13: getConnectionState and getConnectedServerIds can be called in every
\* reachable state, whatever connect or disconnect is in flight; the call
\* returns in the step it is made in, does not throw, and leaves the registry
\* and the clients as they were.
C13_ReadsNeverBlock ==
    /\ \A i \in OpIds :
          NextOp(i) =>
              /\ \A s \in ServerIds : ENABLED GetConnectionStateCall(i, s)
              /\ ENABLED GetConnectedServerIdsCall(i)
    /\ ev.kind \in ReadKinds =>
          /\ ev.type = "return" /\ ev.sync /\ ~ev.threw
          /\ ops[ev.op] = Done
          /\ clients = ev.pre.clients
          /\ clientObjs = ev.pre.clientObjs
          /\ ev.kind = "getConnectionState" =>
                ev.value.status \in {"connected", "disconnected"}

\* C13's case: getConnectionState of one server returned while a disconnect of
\* the other server was awaiting close().
C13_Witness ==
    /\ ev.kind = "getConnectionState"
    /\ ev.type = "return"
    /\ \E j \in OpIds : ops[j].pc = "closing" /\ ops[j].serverId # ev.arg

\* The texts of the text blocks of content, in order
TextsOf(content) ==
    LET texts == SelectSeq(content, LAMBDA b : b.type = "text")
    IN [n \in 1..Len(texts) |-> texts[n].text]

\* texts joined by one newline between consecutive texts
RECURSIVE JoinLines(_)
JoinLines(texts) ==
    IF texts = <<>> THEN <<>>
    ELSE IF Len(texts) = 1 THEN texts[1]
    ELSE texts[1] \o <<"\n">> \o JoinLines(Tail(texts))

CallToolReturned == ev.kind = "callTool" /\ ev.cause = "request resolved"

\* C14: the textContent callTool returns is the texts of the text blocks of the
\* answer, in their order, joined by one newline between consecutive text
\* blocks, and the empty string when there is no text block.
C14_TextJoined ==
    CallToolReturned =>
        ev.value.content = JoinLines(TextsOf(ContentOf(ev.answer)))

\* The image blocks of content, in order
BinaryBlocks(content) == SelectSeq(content, LAMBDA b : b.type = "image")

\* C15 as stated: binaryItems are the binary blocks of the answer, data and
\* mime type, in their order, one item per block; blocks of other kinds are
\* in neither output; raw is the answer.
C15_BinaryAsSent ==
    CallToolReturned =>
        LET blocks == BinaryBlocks(ContentOf(ev.answer)) IN
        /\ ev.value.images =
              [n \in 1..Len(blocks) |->
                  [data |-> blocks[n].data, mimeType |-> blocks[n].mimeType]]
        /\ ev.value.raw = ev.answer

\* C15 amended: binaryItems has one item per binary block of the answer, in
\* the blocks' order, with the block's data and the block's mime type, or
\* image/png when the block's mime type is missing or empty; blocks that
\* are neither text nor binary change neither textContent nor binaryItems;
\* raw is the answer as it came.
C15_BinaryExact ==
    CallToolReturned =>
        LET content == ContentOf(ev.answer)
            blocks == BinaryBlocks(content)
            known == SelectSeq(content, LAMBDA b : b.type \in {"text", "image"})
        IN
        /\ Len(ev.value.images) = Len(blocks)
        /\ \A n \in 1..Len(blocks) :
              /\ ev.value.images[n].data = blocks[n].data
              /\ ev.value.images[n].mimeType =
                    (IF blocks[n].mimeType \in {Absent, ""} THEN "image/png"
                     ELSE blocks[n].mimeType)
        /\ ev.value.content = CapReturn("callTool", [content |-> known]).content
        /\ ev.value.images = CapReturn("callTool", [content |-> known]).images
        /\ \A n \in 1..Len(ev.value.content) : ev.value.content[n] \in {"a", "b", "\n"}
        /\ ev.value.raw = ev.answer

\* C15's case: an answer with two different image blocks, the first one with
\* an empty mime type, and a block of another kind was normalized.
C15_Witness ==
    /\ CallToolReturned
    /\ Len(ev.value.images) = 2
    /\ ev.value.images[1] = [data |-> "AAAA", mimeType |-> "image/png"]
    /\ ev.value.images[2] = [data |-> "BBBB", mimeType |-> "image/jpeg"]
    /\ \E n \in 1..Len(ContentOf(ev.answer)) : ContentOf(ev.answer)[n] = OtherBlock

\* name contains the separator
HasSeparator(name) == \E n \in 1..Len(name) : OccursAt(name, Separator, n)

\* The tools offered to the model under the name the invocation in hand asks for
OfferedAs(t, prefixedName) ==
    {t.allTools[n] : n \in {m \in 1..Len(t.allTools) : t.allTools[m].tool.name = prefixedName}}

\* C16: when the model asks for the prefixed name that was offered for server S
\* and a tool name T without the separator, the orchestrator sends the start
\* frame for, and calls, tool T of server S.
C16_NameRoundTrip ==
    turn.pc = "tool" =>
        \A e \in OfferedAs(turn, turn.call.prefixedName) :
            ~HasSeparator(e.listed) =>
                /\ turn.call.serverId = e.serverId
                /\ turn.call.name = e.listed
                /\ turn.frames[Len(turn.frames)].serverId = e.serverId
                /\ turn.frames[Len(turn.frames)].name = e.listed

\* C17: different pairs of server id and tool name are offered under
\* different prefixed names, and the name asked for is resolved to the pair it
\* was built from, whether or not the tool name contains the separator.
C17_UniquelyReversible ==
    /\ turn.pc # "idle" =>
          \A m, n \in 1..Len(turn.allTools) :
              (\/ turn.allTools[m].serverId # turn.allTools[n].serverId
               \/ turn.allTools[m].listed # turn.allTools[n].listed)
              => turn.allTools[m].tool.name # turn.allTools[n].tool.name
    /\ turn.pc = "tool" =>
          \A e \in OfferedAs(turn, turn.call.prefixedName) :
              /\ turn.call.serverId = e.serverId
              /\ turn.call.name = e.listed

\* The positions of the frames of a kind in the frames of the turn
FramesOf(event) == {n \in 1..Len(turn.frames) : turn.frames[n].event = event}

\* A tool call or an upload of its images is awaited
InCall == turn.pc \in {"tool", "upload"}

TerminalFrames == FramesOf("done") \cup FramesOf("error")

\* C19: a turn whose stream was opened ends with exactly one terminal frame,
\* done or error and never both, which is the last frame of the stream; as
\* long as the turn goes on there is no terminal frame, and once it is over
\* no frame is added.
C19_OneTerminalFrame ==
    /\ StreamOpen =>
          /\ TerminalFrames = (IF TurnOver THEN {Len(turn.frames)} ELSE {})
          /\ TurnOver => turn.frames # <<>>
          /\ FramesOf("done") = {} \/ FramesOf("error") = {}
    /\ turn.pc = "listing" => turn.frames = <<>>
    /\ TurnOver => ~ENABLED (NextTurn /\ turn' # turn)

\* C19's case: a turn is over that sent tool frames and a text frame.
C19_Witness ==
    /\ turn.pc = "done"
    /\ FramesOf("text") # {}
    /\ FramesOf("tool_call_result") # {}

\* C20: when the model call fails, in the first round or in a later one after
\* tool frames, the stream has exactly one error frame, which carries the
\* message of the failure and is the last frame, and no done frame.
C20_FatalModelFailure ==
    /\ turn.pc = "failed" =>
          /\ FramesOf("error") = {Len(turn.frames)}
          /\ turn.frames # <<>>
          /\ turn.thrown.isError =>
                turn.frames[Len(turn.frames)].message = turn.thrown.message
          /\ FramesOf("done") = {}
    /\ (StreamOpen /\ FramesOf("error") # {}) => turn.pc = "failed"

\* C20's case: the model call failed with an Error in a later round, after
\* tool frames were sent.
C20_Witness ==
    /\ turn.pc = "failed"
    /\ turn.thrown.isError
    /\ turn.round >= 2
    /\ FramesOf("tool_call_result") # {}

\* The position of the start frame of the n-th invocation of the turn
StartOf(n) ==
    CHOOSE p \in FramesOf("tool_call_start") :
        Cardinality({q \in FramesOf("tool_call_start") : q <= p}) = n

\* The position of the result frame of the n-th invocation of the turn
ResultOf(n) ==
    CHOOSE p \in FramesOf("tool_call_result") :
        turn.frames[p].id = turn.frames[StartOf(n)].id

\* functionResults.map(fr => ({ functionResponse: ... })) of the rounds that
\* are over (lines 328-336), one after the other
RECURSIVE PartsOf(_, _)
PartsOf(parts, role) ==
    IF parts = <<>> THEN <<>>
    ELSE (IF parts[1].role = role THEN parts[1].parts ELSE <<>>)
         \o PartsOf(Tail(parts), role)

\* The results kept for the model so far, one for each invocation that is
\* over: those of the rounds that are over and those of the round in hand
ModelFacing ==
    PartsOf(turn.conversationParts, "user")
    \o (IF InCall THEN turn.functionResults ELSE <<>>)

\* The invocations of the turn that are over
Finished == 1..Len(turn.outcomes)

Requested == PartsOf(turn.conversationParts, "model")

\* Frames 2n-1 and 2n are the start frame and the result frame of the n-th
\* invocation asked for, n in 1..count
PairedInOrder(count) ==
    \A n \in 1..count :
        /\ 2 * n <= Len(turn.frames)
        /\ turn.frames[2 * n - 1].event = "tool_call_start"
        /\ turn.frames[2 * n - 1].id = CallId(Requested[n].now, Requested[n].rand)
        /\ turn.frames[2 * n - 1].arguments = Requested[n].args
        /\ turn.frames[2 * n].event = "tool_call_result"
        /\ turn.frames[2 * n].id = turn.frames[2 * n - 1].id

\* C22, as stated: the frames of a turn that ended with a plain-text reply
\* are, for each invocation asked for, round by round and in the order of the
\* model's lists, its start frame and its result frame, then a text frame,
\* then done.
C22_ExactFrames ==
    turn.pc = "done" =>
        /\ PairedInOrder(Len(Requested))
        /\ Len(turn.frames) = 2 * Len(Requested) + 2
        /\ turn.frames[Len(turn.frames) - 1].event = "text"
        /\ turn.frames[Len(turn.frames)] = DoneFrame

\* C22, amended: the same, with the text frame between the last result frame
\* and done when the reply is not empty, and nothing between them when it is
\* empty.
C22_ExactFramesTextIfAny ==
    turn.pc = "done" =>
        /\ PairedInOrder(Len(Requested))
        /\ turn.frames =
              SubSeq(turn.frames, 1, 2 * Len(Requested))
              \o (IF turn.reply # <<>> THEN <<TextFrame(turn.reply)>> ELSE <<>>)
              \o <<DoneFrame>>

\* C22's case: a turn with one invocation in round 1, one in round 2 and a
\* text that is not empty in round 3.
C22_Witness ==
    /\ turn.pc = "done"
    /\ turn.round = 3
    /\ turn.reply # <<>>
    /\ Len(turn.frames) = 6

\* C23, as stated: whatever the plain-text reply is, the empty one included,
\* a text frame with the reply as content is sent and done follows it at once.
C23_TextThenDone ==
    turn.pc = "done" =>
        /\ Len(turn.frames) >= 2
        /\ turn.frames[Len(turn.frames) - 1] = TextFrame(turn.reply)
        /\ turn.frames[Len(turn.frames)] = DoneFrame

\* C23, amended: a reply that is not empty is sent whole in the one text
\* frame of the stream and done follows it at once; an empty reply gets no
\* text frame, done is sent alone.
C23_TextUnlessEmpty ==
    turn.pc = "done" =>
        /\ turn.frames[Len(turn.frames)] = DoneFrame
        /\ turn.reply # <<>> =>
              /\ FramesOf("text") = {Len(turn.frames) - 1}
              /\ turn.frames[Len(turn.frames) - 1] = TextFrame(turn.reply)
        /\ turn.reply = <<>> => FramesOf("text") = {}

\* C23's case: a turn that ended in its first round with a reply that is not
\* empty.
C23_Witness ==
    /\ turn.pc = "done"
    /\ turn.round = 1
    /\ turn.reply = <<"h", "i">>
    /\ turn.frames = <<TextFrame(<<"h", "i">>), DoneFrame>>

RECURSIVE StoredFrom(_, _, _)
StoredFrom(images, stored, i) ==
    IF i > Len(images) THEN <<>>
    ELSE (IF i <= Len(stored) /\ stored[i]
          THEN << [url |-> <<"url", i>>, mimeType |-> images[i].mimeType] >>
          ELSE <<>>)
         \o StoredFrom(images, stored, i + 1)

\* C25: the images of a tool result are uploaded only when the request
\* carries a session id and a message id, and then each of them; whichever
\* uploads fail, the tool_call_result frame carries the tool's result and no
\* error, and its images are, in the order of the items, the URLs of just the
\* items that were stored (no images field when none was); the loop goes on.
C25_UploadNonFatal ==
    StreamOpen =>
        /\ turn.pc = "upload" => (HasTarget(turn) /\ turn.call.result.images # <<>>)
        /\ Cardinality(FramesOf("tool_call_result")) = Len(turn.outcomes)
        /\ \A n \in Finished :
              turn.outcomes[n].kind = "returned" =>
                 LET f == turn.frames[ResultOf(n)]
                     o == turn.outcomes[n]
                     urls == StoredFrom(o.result.images, o.stored, 1)
                 IN /\ Len(o.stored) = (IF HasTarget(turn) THEN Len(o.result.images) ELSE 0)
                    /\ "error" \notin DOMAIN f
                    /\ f.result = o.result.raw
                    /\ f.images = (IF urls # <<>> THEN urls ELSE Absent)
        /\ (turn.pc = "failed" \/ FramesOf("error") # {}) => turn.thrown # None

\* C25's case: of the two images of a tool result the first was not stored
\* and the second was; the turn went on and ended with done.
C25_Witness ==
    /\ turn.pc = "done"
    /\ \E n \in Finished :
          /\ turn.outcomes[n].kind = "returned"
          /\ turn.outcomes[n].stored = <<FALSE, TRUE>>
          /\ Len(turn.frames[ResultOf(n)].images) = 1

\* C26: in every round after the first, the message sent to the model is the
\* results of the round before, one for each invocation asked for, in the
\* order asked for.
C26_ResultsFedBack ==
    StreamOpen =>
        \A r \in 2..Len(turn.sent) :
            /\ 2 * (r - 1) <= Len(turn.conversationParts)
            /\ turn.sent[r] = turn.conversationParts[2 * (r - 1)].parts
            /\ Len(turn.sent[r]) = Len(turn.conversationParts[2 * (r - 1) - 1].parts)

\* The text the model is to get for a tool result of which the images in
\* uploaded were stored: the text of the result, then the note with the URLs
\* when there is one at least
TextFor(result, uploaded) ==
    result.content \o
    (IF uploaded # <<>>
     THEN <<"\n", "\n", "[Images generated: ">> \o JoinUrls(uploaded) \o <<"]">>
     ELSE <<>>)

\* The binary payloads in a response kept for the model: those of the image
\* blocks of an object, none in a string
PayloadsOf(response) ==
    IF "content" \in DOMAIN response
    THEN {response.content[i].data :
             i \in {j \in 1..Len(response.content) : response.content[j].type = "image"}}
    ELSE {}

\* C27: what is kept for the model for a tool call that returned is the text
\* of the normalized result, with the note of the URLs after it when an image
\* was stored, whatever the result is and whether its images were stored, not
\* stored or not uploaded; it holds no binary payload.
C27_PurelyTextual ==
    StreamOpen =>
        \A n \in Finished :
            (n <= Len(ModelFacing) /\ turn.outcomes[n].kind = "returned") =>
                LET o == turn.outcomes[n]
                    text == TextFor(o.result, StoredFrom(o.result.images, o.stored, 1))
                IN /\ PayloadsOf(ModelFacing[n].response) = {}
                   /\ ModelFacing[n].response = StringValue(text)

\* The invocations the model asked for so far: those of the rounds that are
\* over and those of the round in hand
AskedFor == Requested \o (IF InCall THEN turn.functionCalls ELSE <<>>)

\* The invocations are handled one after the other: each has its start frame
\* when it is taken up and its result frame and its result for the model
\* before the next is taken up.
OneByOne ==
    /\ Cardinality(FramesOf("tool_call_result")) = Len(turn.outcomes)
    /\ Len(ModelFacing) = Len(turn.outcomes)
    /\ Cardinality(FramesOf("tool_call_start"))
          = Len(turn.outcomes) + (IF InCall THEN 1 ELSE 0)
    /\ Len(AskedFor) >= Cardinality(FramesOf("tool_call_start"))
    /\ InCall => turn.k = Len(turn.functionResults) + 1
    /\ (turn.pc = "model" /\ turn.round > 1) => Len(AskedFor) = Len(turn.outcomes)

\* C28: an invocation whose name is in no entry of the tool map gets a
\* result frame with an error and no result right after its start frame, the
\* error is kept for the model, callTool is not called for it (the call in
\* hand is always for a name of the map), and the loop goes on with the next
\* invocation and the turn with its next round; no invocation with a name of
\* the map is treated so.
C28_UnknownNameNotFatal ==
    StreamOpen =>
        /\ OneByOne
        /\ \A n \in Finished :
              /\ (MapGet(turn.toolServerMap, AskedFor[n].name) = None)
                    <=> (turn.outcomes[n].kind = "unknown")
              /\ turn.outcomes[n].kind = "unknown" =>
                    LET f == turn.frames[ResultOf(n)] IN
                    /\ ResultOf(n) = StartOf(n) + 1
                    /\ "error" \in DOMAIN f
                    /\ f.error # <<>>
                    /\ "result" \notin DOMAIN f
                    /\ ModelFacing[n].response = [error |-> f.error]
        /\ InCall =>
              /\ turn.call.prefixedName = AskedFor[Len(turn.outcomes) + 1].name
              /\ MapGet(turn.toolServerMap, turn.call.prefixedName) # None
        /\ (turn.pc = "failed" \/ FramesOf("error") # {}) => turn.thrown # None

\* C28's case: a turn ended with done in which the first invocation of a
\* round had a name no server offers and the second was called and returned.
C28_Witness ==
    /\ turn.pc = "done"
    /\ Len(turn.functionCalls) = 2
    /\ Len(turn.outcomes) = 2
    /\ turn.outcomes[1].kind = "unknown"
    /\ turn.outcomes[2].kind = "returned"

\* C29: while callTool is awaited for an invocation, the last frame is its
\* start frame, with the server id and name of the map entry of the name asked
\* for, the tool name that gives the name asked for when prefixed with that
\* server id, and the arguments asked for, and the call is for that server
\* and tool name; the invocations are taken up one after the other in the
\* order of the model's lists.
C29_StartBeforeCall ==
    StreamOpen =>
        /\ OneByOne
        /\ \A n \in 1..Cardinality(FramesOf("tool_call_start")) :
              /\ turn.frames[StartOf(n)].id = CallId(AskedFor[n].now, AskedFor[n].rand)
              /\ turn.frames[StartOf(n)].arguments = AskedFor[n].args
        /\ turn.pc = "tool" =>
              LET req == AskedFor[Len(turn.outcomes) + 1]
                  info == MapGet(turn.toolServerMap, req.name)
                  start == turn.frames[Len(turn.frames)]
              IN /\ turn.frames # <<>>
                 /\ start.event = "tool_call_start"
                 /\ StartOf(Len(turn.outcomes) + 1) = Len(turn.frames)
                 /\ info # None
                 /\ start.serverId = info.serverId
                 /\ start.serverName = info.serverName
                 /\ PrefixedName(start.serverId, start.name) = req.name
                 /\ turn.call.id = start.id
                 /\ turn.call.serverId = start.serverId
                 /\ turn.call.name = start.name

\* C29's case: callTool is awaited for the second invocation of a round,
\* after the first returned.
C29_Witness ==
    /\ turn.pc = "tool"
    /\ turn.k = 2
    /\ Len(turn.outcomes) = 1
    /\ turn.outcomes[1].kind = "returned"

\* The server of the n-th invocation was disconnected when its call was made
\* or while its call was awaited: the registry had no client for it, or the
\* client was closed
GoneAt(n) ==
    /\ turn.outcomes[n].kind = "threw"
    /\ turn.outcomes[n].st \in {"absent", "closed"}

C31_ConfigImmutable ==
    [][\A s \in ServerIds :
          (MapHas(clients, s) /\ MapHas(clients', s)) =>
              MapGet(clients', s) = MapGet(clients, s)]_vars

\* The answer of the status route: the fields of getConnectionState(serverId)
StatusResponse(m, serverId) ==
    LET state == getConnectionState(m, serverId)
    IN [serverId |-> state.serverId, status |-> state.status]

\* C32: every instance stored in the registry has status connected, so
\* getConnectionState and the status route answer connected or disconnected
\* for every id; when a connect returns the error state and the registry had
\* no entry for its id, the registry has none afterwards and answers
\* disconnected for the id: the error is in the returned state only.
C32_OnlyConnectedStored ==
    /\ \A n \in 1..Len(clients) : clients[n].value.state.status = "connected"
    /\ \A s \in QueryIds :
          /\ getConnectionState(clients, s).status \in {"connected", "disconnected"}
          /\ StatusResponse(clients, s).status \in {"connected", "disconnected"}
    /\ (/\ ev.type = "return" /\ ev.kind = "connect"
        /\ ev.value.status = "error"
        /\ ~MapHas(ev.pre.clients, ev.arg.id)) =>
          /\ getConnectionState(clients, ev.arg.id) =
                [serverId |-> ev.arg.id, status |-> "disconnected"]
          /\ "error" \in DOMAIN ev.value
          /\ "error" \notin DOMAIN getConnectionState(clients, ev.arg.id)

\* C32's case: the handshake of a connect for an id without entry was
\* rejected and the connect returned the error state, while the other id is
\* connected.
C32_Witness ==
    /\ ev.type = "return" /\ ev.kind = "connect"
    /\ ev.cause = "handshake rejected"
    /\ ev.value.status = "error"
    /\ ~MapHas(clients, ev.arg.id)
    /\ clients # <<>>

\* C33: a disconnect is not undone by an earlier connect. Calls are numbered
\* in the order they are made: when disconnect(s) has just returned and the
\* next step registers s, that step belongs to a connect called after the
\* disconnect.
C33_DisconnectNotUndone ==
    [][(/\ ev.kind = "disconnect" /\ ev.type = "return"
        /\ MapHas(clients', ev.arg)) => ev'.op > ev.op]_vars

\* The last message of the request is not from the user
LastNotUser(body) ==
    /\ body # NullBody
    /\ ~NoMessages(body)
    /\ LET last == body.messages.items[Len(body.messages.items)]
       IN last = NullMessage \/ last.role # "user"

\* The body is an object whose messages array is missing or empty
MessagesMissing(body) == body # NullBody /\ NoMessages(body)

\* The request is refused: no stream is opened for it, no frame is emitted
\* and the model is not called; it is answered with a JSON error or its
\* tools are still being collected.
Refused ==
    /\ turn.pc \in {"listing", "rejected"}
    /\ turn.frames = <<>>
    /\ turn.sent = <<>>
    /\ turn.round = 0
    /\ turn.response # StreamResponse
    /\ turn.pc = "rejected" <=> turn.response # None

RECURSIVE OfferedBy(_)
OfferedBy(listings) ==
    IF listings = <<>>
    THEN <<>>
    ELSE LET l == listings[Len(listings)]
         IN OfferedBy(SubSeq(listings, 1, Len(listings) - 1))
            \o (IF l.failed
                THEN <<>>
                ELSE [n \in 1..Len(l.tools) |->
                         [serverId |-> l.serverId,
                          name |-> PrefixedName(l.serverId, l.tools[n].name)]])

\* The function declarations the model is given: allTools (line 107)
Declarations(t) ==
    [n \in 1..Len(t.allTools) |->
        [serverId |-> t.allTools[n].serverId, name |-> t.allTools[n].tool.name]]

\* C35: the listings of the servers are independent: whatever listing
\* failed, the tools collected are those of the servers whose listing was
\* answered, all of them, and none of a server whose listing failed; after
\* the last listing the stream is opened and the model is called with them.
C35_DiscoveryIsolated ==
    turn.pc # "idle" =>
        /\ Declarations(turn) = OfferedBy(turn.listings)
        /\ \A n \in 1..Len(turn.listings) : turn.listings[n].serverId = turn.serverIds[n]
        /\ turn.pc = "listing" =>
              /\ Len(turn.listings) = turn.n - 1
              /\ ENABLED ListFails
              /\ \A tools \in ToolLists : ENABLED ListSettles(tools)
        /\ turn.pc # "listing" =>
              /\ Len(turn.listings) = Len(turn.serverIds)
              /\ StreamOpen
              /\ turn.round >= 1

\* C35's case: the listing of the first of two connected servers failed, the
\* second was answered, and the model was called with the tools of the second.
C35_Witness ==
    /\ turn.pc = "model"
    /\ Len(turn.listings) = 2
    /\ turn.listings[1].failed
    /\ ~turn.listings[2].failed
    /\ turn.allTools # <<>>
    /\ \A n \in 1..Len(turn.allTools) : turn.allTools[n].serverId = turn.serverIds[2]

\* Whether image i of invocation n was kept by the caller, as the call's
\* record tells while the call lasts and its outcome afterwards
KeptBy(n, i) ==
    IF n <= Len(turn.outcomes)
    THEN turn.outcomes[n].stored[i]
    ELSE turn.call.stored[i]

\* C36: uploadAndSaveImage returns, never throws; it returns the public URL
\* of the uploaded file, with the metadata, when the upload succeeded and
\* the metadata row was saved, and null in every other case; the caller
\* keeps a URL for the image exactly when one was returned.
C36_UrlIffBothSucceeded ==
    (ev.kind = "uploadAndSaveImage" /\ ev.type = "return") =>
        /\ ~ev.threw
        /\ ev.thrown = None
        /\ ev.value # Null <=> (ev.arg.upload = "ok" /\ ev.arg.save = "row")
        /\ ev.value # Null =>
              /\ ev.value.publicUrl # <<>>
              /\ ev.value.metadata # Null
              /\ ev.value.publicUrl = PublicUrl(ev.value.metadata.storagePath)
        /\ KeptBy(ev.arg.call, ev.arg.i) = (ev.value # Null)
        /\ (turn.pc = "upload" /\ ev.arg.call = Len(turn.outcomes) + 1) =>
              /\ Len(turn.call.stored) = ev.arg.i
              /\ Len(turn.call.uploaded) =
                    Cardinality({j \in 1..ev.arg.i : turn.call.stored[j]})
              /\ ev.value # Null =>
                    turn.call.uploaded[Len(turn.call.uploaded)].url = ev.value.publicUrl

\* C36's case: the upload of the first image of a call succeeded, its
\* metadata were not saved, and null was returned; the second image is next.
C36_Witness ==
    /\ ev.kind = "uploadAndSaveImage" /\ ev.type = "return"
    /\ ev.arg.upload = "ok"
    /\ ev.arg.save = "error"
    /\ ev.value = Null
    /\ turn.pc = "upload"
    /\ turn.call.i = 2
    /\ turn.call.uploaded = <<>>

\* The ids of a server list are pairwise different
UniqueIds(servers) ==
    \A n, m \in 1..Len(servers) : servers[n].id = servers[m].id => n = m

\* C37: the server ids of the stored list are unique after any sequence of
\* addServer, updateServer, removeServer and importConfig.
C37_StoredIdsUnique == UniqueIds(getServers(localStorage))

\* The sessions localStorage holds
LocalSessions(store) ==
    {ParsedArray(store.chat_sessions)[n] : n \in 1..Len(ParsedArray(store.chat_sessions))}

\* C38: when the migration has returned, a session whose insert failed is
\* still among the local sessions and a batch of messages whose insert
\* failed is still in localStorage; a call made with the flag set migrates
\* nothing and inserts nothing.
C38_FailedNotDeleted ==
    migration.pc = "returned" =>
        /\ \A id \in migration.failedSessions : id \in LocalSessions(localStorage)
        /\ \A id \in migration.failedBatches : localStorage.messages[id] # None
        /\ migration.flagged =>
              /\ ~migration.result.migrated
              /\ migration.inserts = 0
====
